---- MODULE Spec2Model ----
(***************************************************************************)
(* Model of the Tuvok IOManager facade (IOManager.cpp): stack conversion,  *)
(* dataset merging, converter identification and dispatch, and per-brick   *)
(* min/max statistics.  Each operation has its own specification over the  *)
(* shared state; the variables an operation does not use keep their idle   *)
(* values.                                                                 *)
(***************************************************************************)
EXTENDS Integers, Sequences, FiniteSets, TLC

(***************************************************************************)
(* Bounds of the model.                                                    *)
(***************************************************************************)
MaxSlices == 2
MaxVoxels == 2
MaxBrickLen == 3
MaxSources == 3
MaxConv == 3
MaxStacks == 3
MaxInputs == 2
MaxTable == 2
MaxLODs == 2
MaxCount == 2
MaxParam == 4

(***************************************************************************)
(* Shared state: the file system, as the set of paths that exist.          *)
(***************************************************************************)
VARIABLES fs

(***************************************************************************)
(* State of ConvertDataset on a FileStackInfo.                             *)
(***************************************************************************)
VARIABLES
  pStack,        \* the caller's stack descriptor (mutated in place)
  stackIn,       \* the descriptor as it was when the call was made
  stackPc,       \* position inside the call
  j,             \* loop index over m_Elements (1-based)
  tempData,      \* bytes written to the temp raw file so far
  tempCreated,   \* the temp raw file was opened successfully by this call
  rawArgs,       \* arguments handed to RAWConverter::ConvertRAWDataset
  stackResult    \* return value of the call

stackVars == <<pStack, stackIn, stackPc, j, tempData, tempCreated, rawArgs,
               stackResult>>

(***************************************************************************)
(* State of get_brick_minmax on one brick of a raster data block.          *)
(***************************************************************************)
VARIABLES
  vtype,         \* the voxel type T the brick is read with
  data,          \* the voxels rdb->GetData returned for the brick
  mmv,           \* the DOUBLEVECTOR4 computed for the brick
  mmPc           \* position inside the call

mmVars == <<vtype, data, mmv, mmPc>>

(***************************************************************************)
(* The converter registry of the IOManager.                                *)
(***************************************************************************)
VARIABLES
  m_vpConverters,     \* registered converters, in registration order
  m_pFinalConverter,  \* the fallback converter, or NoConverter
  addr                \* memory address of each converter object

regVars == <<m_vpConverters, m_pFinalConverter, addr>>

(***************************************************************************)
(* State of MergeDatasets.                                                 *)
(***************************************************************************)
VARIABLES
  strFilenames,        \* the sources of the call, with what each one is
  iInputData,          \* loop index over the sources (1-based)
  bRAWCreated,
  vIntermediateFiles,  \* sequence of [strFilename, bDelete]
  metaG,               \* iComponentSizeG ... vVolumeAspectG
  mergePc,             \* position inside the call
  mergerCalls,         \* the file lists DataMerger was constructed with
  targetCalls,         \* conversions of merged.raw into the target
  mergeResult          \* return value of the call

mergeVars == <<strFilenames, iInputData, bRAWCreated, vIntermediateFiles,
               metaG, mergePc, mergerCalls, targetCalls, mergeResult>>

(***************************************************************************)
(* State of ConvertDataset on a list of files.                             *)
(***************************************************************************)
VARIABLES
  call,                     \* the arguments of the call
  convPc,                   \* position inside the call
  log,                      \* file reads and converter calls, in order
  bytes,                    \* the block identify_converters offers
  converters,               \* the set identify_converters builds
  pending,                  \* the part of the set not yet iterated over
  cbegin,                   \* loop index of identify_converters (1-based)
  strIntermediateFile,
  bDeleteIntermediateFile,
  convResult                \* return value of the call

convVars == <<call, convPc, log, bytes, converters, pending, cbegin,
              strIntermediateFile, bDeleteIntermediateFile, convResult>>

(***************************************************************************)
(* State of ExportDataset and ExtractIsosurface.                           *)
(***************************************************************************)
VARIABLES
  expCall,       \* the operation, its arguments and the files before it
  expPc,         \* position inside the call
  expLog,        \* converter selections, exports and removals, in order
  pExporter,     \* the converter selected for the target
  expResult      \* return value of the call

exportVars == <<expCall, expPc, expLog, pExporter, expResult>>

(***************************************************************************)
(* State of ScanDirectory.                                                 *)
(***************************************************************************)
VARIABLES
  parsed,        \* what the two parsers found in the directory
  m_FileStacks,  \* parseDICOM.m_FileStacks
  stack,         \* loop index of the JPEG filter (0-based size_t)
  fileStacks,    \* the vector the call returns
  scanPc         \* position inside the call

scanVars == <<parsed, m_FileStacks, stack, fileStacks, scanPc>>

(***************************************************************************)
(* State of EvaluateExpression.                                            *)
(***************************************************************************)
VARIABLES
  evalCall,      \* the expression and the volumes of the call
  evalPc,        \* position inside the call
  evalLog,       \* parser calls, dataset and file operations, in order
  viters,        \* the brick iterator of each volume (0-based position)
  evalOutcome    \* how the call ended

evalVars == <<evalCall, evalPc, evalLog, viters, evalOutcome>>

(***************************************************************************)
(* State of GetConverterForExt.                                            *)
(***************************************************************************)
VARIABLES
  extTable,      \* SupportedExt and CanExportData of each registered converter
  lookupArgs,    \* ext and bMustSupportExport
  lookupPc,      \* position inside the call
  lookupResult   \* index of the converter returned, or NoConverter

lookupVars == <<extTable, lookupArgs, lookupPc, lookupResult>>

(***************************************************************************)
(* State of CreateUVFFromRDB and MaxMin on a raster data block.            *)
(***************************************************************************)
VARIABLES
  rdb,           \* the raster data block: type and brick counts per LOD
  vLOD,          \* vLOD[0] of MaxMin
  brick,         \* the 1D brick index of MaxMin, between its brick loops
  minmax,        \* the vector MaxMin builds and returns
  reads,         \* the (LOD, 1D index, brick index) of every brick read
  max_val,       \* the maximum handed to the 2D histogram
  rdbPc          \* position inside the call

rdbVars == <<rdb, vLOD, brick, minmax, reads, max_val, rdbPc>>

(***************************************************************************)
(* State of ReBrickDataset.                                                *)
(***************************************************************************)
VARIABLES
  rbCall,        \* iMaxBrickSize, iBrickOverlap and bQuantizeTo8Bit
  rbPc,          \* position inside the call
  rbLog,         \* the ConvertDataset calls made, in order
  rbResult       \* return value of the call

rebrickVars == <<rbCall, rbPc, rbLog, rbResult>>

(***************************************************************************)
(* The brick parameters of the IOManager.                                  *)
(***************************************************************************)
VARIABLES
  m_iMaxBrickSize,
  m_iBrickOverlap,
  lastSet        \* the last setter call: argument, result, values before

sizeVars == <<m_iMaxBrickSize, m_iBrickOverlap, lastSet>>

(***************************************************************************)
(* Ownership of the registered converter objects.                          *)
(***************************************************************************)
VARIABLES
  deleted,       \* how often each object was deleted (2: more than once)
  passed,        \* the objects handed to the manager so far
  lastFinal,     \* the argument of the last RegisterFinalConverter
  lifePc         \* "alive" until the destructor has run

lifeVars == <<deleted, passed, lastFinal, lifePc>>

laterVars == <<rdbVars, rebrickVars, sizeVars, lifeVars>>

vars == <<fs, stackVars, mmVars, regVars, mergeVars, convVars, exportVars,
          scanVars, evalVars, lookupVars, laterVars>>

\* what each operation leaves alone
notStack == <<mmVars, regVars, mergeVars, convVars, exportVars, scanVars,
              evalVars, lookupVars,
              laterVars>>
notMinMax == <<stackVars, regVars, mergeVars, convVars, exportVars, scanVars,
               evalVars, lookupVars,
               laterVars>>
notMerge == <<stackVars, mmVars, regVars, convVars, exportVars, scanVars,
              evalVars, lookupVars,
              laterVars>>
notConv == <<stackVars, mmVars, mergeVars, exportVars, scanVars, evalVars,
             lookupVars,
             laterVars>>
notExport == <<stackVars, mmVars, regVars, mergeVars, convVars, scanVars,
               evalVars, lookupVars,
               laterVars>>
notScan == <<stackVars, mmVars, regVars, mergeVars, convVars, exportVars,
             evalVars, lookupVars,
             laterVars>>
notEval == <<stackVars, mmVars, regVars, mergeVars, convVars, exportVars,
             scanVars, lookupVars,
             laterVars>>
notLookup == <<stackVars, mmVars, regVars, mergeVars, convVars, exportVars,
               scanVars, evalVars,
               laterVars>>

earlierVars == <<stackVars, mmVars, mergeVars, convVars, exportVars, scanVars,
                 evalVars, lookupVars>>
notRdb == <<earlierVars, regVars, rebrickVars, sizeVars, lifeVars>>
notReBrick == <<earlierVars, regVars, rdbVars, sizeVars, lifeVars>>
notSize == <<earlierVars, regVars, rdbVars, rebrickVars, lifeVars>>
notLife == <<earlierVars, rdbVars, rebrickVars, sizeVars>>

(***************************************************************************)
(* Helpers on byte sequences.                                              *)
(***************************************************************************)
\* value of a byte stored in a (signed) char of vector<char>
ToChar(b) == IF b > 127 THEN b - 256 ELSE b

\* byte pattern of an integer stored to an unsigned char / written to a file
ToByte(c) == c % 256

\* a payload as held in vector<char>
CharsOf(s) == [i \in 1..Len(s) |-> ToChar(s[i])]

\* a vector<char> as written to a file
BytesOf(s) == [i \in 1..Len(s) |-> ToByte(s[i])]

RECURSIVE Concat(_)
Concat(ss) == IF ss = <<>> THEN <<>> ELSE Head(ss) \o Concat(Tail(ss))

\* EndianConvert::IsBigEndian() of the host the code runs on
HostIsBigEndian == FALSE

\* BITS_IN_JSAMPLE of the bundled jpeglib
BITS_IN_JSAMPLE == 8

\* EndianConvert::Swap<T> applied to each w-byte element of the buffer, for
\* the first Len(v) \div w elements; trailing bytes are left alone.
SwapBuffer(v, w) ==
  [i \in 1..Len(v) |->
     IF i <= (Len(v) \div w) * w
       THEN v[((i - 1) \div w) * w + (w - ((i - 1) % w))]
       ELSE v[i]]

\* the endianness switch of the stack assembler
SwapForAllocated(v, allocated) ==
  CASE allocated = 16 -> SwapBuffer(v, 2)
    [] allocated = 32 -> SwapBuffer(v, 4)
    [] OTHER -> v

\* the RGB -> RGBA rewrite: iDataSize/3 triples, each followed by 255
PadRGBA(v) ==
  [i \in 1..((Len(v) \div 3) * 4) |->
     IF (i - 1) % 4 = 3 THEN 255
     ELSE ToByte(v[((i - 1) \div 4) * 3 + ((i - 1) % 4) + 1])]

(***************************************************************************)
(* Stack descriptors the scanner can hand to the conversion.               *)
(***************************************************************************)
TempFile == "temp~"
TargetFile == "target"

\* payload of element e: distinct, position-dependent byte values
ElementBytes(e, len) == [i \in 1..len |-> (e * 101 + i * 37) % 256]

StackElement(e, len, valid) ==
  [bytes |-> ElementBytes(e, len), jpegValid |-> valid]

StackDescriptors ==
  { [m_strFileType     |-> ft,
     m_iAllocated      |-> al,
     m_iComponentCount |-> cc,
     m_bIsBigEndian    |-> be,
     m_bIsJPEGEncoded  |-> jp,
     m_Elements        |-> [e \in 1..n |->
                              StackElement(e, vx * cc * (al \div 8),
                                           e \in ok)]] :
      ft \in {"DICOM", "IMAGE", "OTHER"}, al \in {8, 16, 32, 64},
      cc \in {1, 3, 4}, be \in BOOLEAN, jp \in BOOLEAN,
      n \in 1..MaxSlices, vx \in 1..MaxVoxels, ok \in SUBSET (1..MaxSlices) }

NoArgs == [called |-> FALSE]

StackInit ==
  /\ pStack \in { s \in StackDescriptors :
                    \* only a JPEG-encoded DICOM stack has invalid payloads
                    \/ (s.m_strFileType = "DICOM" /\ s.m_bIsJPEGEncoded)
                    \/ \A e \in 1..Len(s.m_Elements) :
                          s.m_Elements[e].jpegValid }
  /\ stackIn = pStack
  /\ stackPc = "start"
  /\ j = 1
  /\ tempData = <<>>
  /\ tempCreated = FALSE
  /\ rawArgs = NoArgs
  /\ stackResult = FALSE

(***************************************************************************)
(* ConvertDataset on a FileStackInfo: opening the temp raw file.           *)
(***************************************************************************)
StackOpenTemp ==
  /\ stackPc = "start"
  /\ \E canCreate \in BOOLEAN :
       IF pStack.m_strFileType \in {"DICOM", "IMAGE"}
         THEN IF canCreate
                THEN /\ fs' = fs \cup {TempFile}
                     /\ tempCreated' = TRUE
                     /\ stackPc' = IF pStack.m_strFileType = "DICOM"
                                     THEN "dicom" ELSE "image"
                     /\ UNCHANGED stackResult
                ELSE /\ stackPc' = "done"
                     /\ stackResult' = FALSE
                     /\ UNCHANGED <<fs, tempCreated>>
         ELSE /\ stackPc' = "done"
              /\ stackResult' = FALSE
              /\ UNCHANGED <<fs, tempCreated>>
  /\ UNCHANGED <<pStack, stackIn, j, tempData, rawArgs, notStack>>

(***************************************************************************)
(* One iteration of the DICOM element loop.                                *)
(***************************************************************************)
\* the stack descriptor after the payload of an element was obtained
AfterPayload(s) ==
  IF s.m_bIsJPEGEncoded
    THEN [s EXCEPT !.m_iAllocated = BITS_IN_JSAMPLE]
    ELSE s

\* vData after the optional byte swap
SwappedPayload(s, el) ==
  LET vData == CharsOf(el.bytes)
  IN IF s.m_bIsBigEndian # HostIsBigEndian
       THEN SwapForAllocated(vData, s.m_iAllocated)
       ELSE vData

\* the bytes written for one element
WrittenForElement(s, el) ==
  IF s.m_iComponentCount = 3
    THEN PadRGBA(SwappedPayload(s, el))
    ELSE BytesOf(SwappedPayload(s, el))

\* the stack descriptor after writing one element
AfterWrite(s) ==
  IF s.m_iComponentCount = 3
    THEN [s EXCEPT !.m_iComponentCount = 4]
    ELSE s

StackDicomElement ==
  /\ stackPc = "dicom"
  /\ j <= Len(pStack.m_Elements)
  /\ LET el == pStack.m_Elements[j]
     IN IF pStack.m_bIsJPEGEncoded /\ ~el.jpegValid
          THEN /\ stackPc' = "done"
               /\ stackResult' = FALSE
               /\ UNCHANGED <<pStack, j, tempData>>
          ELSE LET s1 == AfterPayload(pStack)
               IN /\ tempData' = tempData \o WrittenForElement(s1, el)
                  /\ pStack' = AfterWrite(s1)
                  /\ j' = j + 1
                  /\ UNCHANGED <<stackPc, stackResult>>
  /\ UNCHANGED <<fs, stackIn, tempCreated, rawArgs, notStack>>

(***************************************************************************)
(* One iteration of the image-stack element loop.                          *)
(***************************************************************************)
StackImageElement ==
  /\ stackPc = "image"
  /\ j <= Len(pStack.m_Elements)
  /\ tempData' = tempData \o pStack.m_Elements[j].bytes
  /\ j' = j + 1
  /\ UNCHANGED <<fs, pStack, stackIn, stackPc, tempCreated, rawArgs,
                 stackResult, notStack>>

(***************************************************************************)
(* RAWConverter::ConvertRAWDataset on the temp file, then remove it.       *)
(***************************************************************************)
BuilderArgs(s, isDicom) ==
  [called     |-> TRUE,
   bits       |-> s.m_iAllocated,
   components |-> s.m_iComponentCount,
   swap       |-> (s.m_bIsBigEndian # HostIsBigEndian),
   signed     |-> IF isDicom THEN s.m_iAllocated >= 32
                             ELSE s.m_iComponentCount >= 32,
   slices     |-> Len(s.m_Elements)]

StackBuild ==
  /\ stackPc \in {"dicom", "image"}
  /\ j > Len(pStack.m_Elements)
  /\ \E result \in BOOLEAN :
       /\ rawArgs' = BuilderArgs(pStack, stackPc = "dicom")
       /\ fs' = (IF result THEN fs \cup {TargetFile} ELSE fs) \ {TempFile}
       /\ stackResult' = result
  /\ stackPc' = "done"
  /\ UNCHANGED <<pStack, stackIn, j, tempData, tempCreated, notStack>>

StackNext ==
  \/ StackOpenTemp
  \/ StackDicomElement
  \/ StackImageElement
  \/ StackBuild

StackIdle ==
  /\ pStack = [m_strFileType |-> "NONE"]
  /\ stackIn = pStack
  /\ stackPc = "idle"
  /\ j = 1
  /\ tempData = <<>>
  /\ tempCreated = FALSE
  /\ rawArgs = NoArgs
  /\ stackResult = FALSE

MinMaxIdle ==
  /\ vtype = "none"
  /\ data = <<>>
  /\ mmv = [x |-> 0, y |-> 0]
  /\ mmPc = "idle"

NoConverter == 0

RegistryIdle ==
  /\ m_vpConverters = <<>>
  /\ m_pFinalConverter = NoConverter
  /\ addr = <<>>

NoMeta == [bits |-> 0, components |-> 0, endian |-> FALSE, signed |-> FALSE,
           float |-> FALSE, size |-> 0, aspect |-> 0]

MergeIdle ==
  /\ strFilenames = <<>>
  /\ iInputData = 1
  /\ bRAWCreated = FALSE
  /\ vIntermediateFiles = <<>>
  /\ metaG = NoMeta
  /\ mergePc = "idle"
  /\ mergerCalls = <<>>
  /\ targetCalls = <<>>
  /\ mergeResult = FALSE

NoCall == [files |-> 0]

ConvIdle ==
  /\ call = NoCall
  /\ convPc = "idle"
  /\ log = <<>>
  /\ bytes = "none"
  /\ converters = {}
  /\ pending = <<>>
  /\ cbegin = 1
  /\ strIntermediateFile = ""
  /\ bDeleteIntermediateFile = FALSE
  /\ convResult = FALSE

NoExportCall == [op |-> "none"]

ExportIdle ==
  /\ expCall = NoExportCall
  /\ expPc = "idle"
  /\ expLog = <<>>
  /\ pExporter = NoConverter
  /\ expResult = FALSE

ScanIdle ==
  /\ parsed = [dicom |-> <<>>, images |-> <<>>]
  /\ m_FileStacks = <<>>
  /\ stack = 0
  /\ fileStacks = <<>>
  /\ scanPc = "idle"

NoEvalCall == [parses |-> FALSE, volumes |-> <<>>]

EvalIdle ==
  /\ evalCall = NoEvalCall
  /\ evalPc = "idle"
  /\ evalLog = <<>>
  /\ viters = <<>>
  /\ evalOutcome = "none"

LookupIdle ==
  /\ extTable = <<>>
  /\ lookupArgs = [ext |-> <<>>, bMustSupportExport |-> FALSE]
  /\ lookupPc = "idle"
  /\ lookupResult = NoConverter

NoRdb == [lods |-> 0]

RdbIdle ==
  /\ rdb = NoRdb
  /\ vLOD = 0
  /\ brick = 0
  /\ minmax = <<>>
  /\ reads = <<>>
  /\ max_val = 0
  /\ rdbPc = "idle"

NoReBrick == [iMaxBrickSize |-> 0]

ReBrickIdle ==
  /\ rbCall = NoReBrick
  /\ rbPc = "idle"
  /\ rbLog = <<>>
  /\ rbResult = FALSE

NoSet == [op |-> "none"]

SizeIdle ==
  /\ m_iMaxBrickSize = 1
  /\ m_iBrickOverlap = 0
  /\ lastSet = NoSet

LifeIdle ==
  /\ deleted = <<>>
  /\ passed = {}
  /\ lastFinal = NoConverter
  /\ lifePc = "idle"

LaterIdle == RdbIdle /\ ReBrickIdle /\ SizeIdle /\ LifeIdle

\* the operations added to the ones above are not running
OthersIdle == ExportIdle /\ ScanIdle /\ EvalIdle /\ LookupIdle /\ LaterIdle

InitStack ==
  /\ fs = {} /\ StackInit /\ MinMaxIdle /\ RegistryIdle /\ MergeIdle
  /\ ConvIdle /\ OthersIdle
SpecStack == InitStack /\ [][StackNext]_vars

(***************************************************************************)
(* C1: after ConvertDataset(stack) has returned, on every path taken after *)
(* the temp raw file was created, the temp raw file does not exist.        *)
(***************************************************************************)
C1_TempFileRemoved ==
  (stackPc = "done" /\ tempCreated) => TempFile \notin fs

(***************************************************************************)
(* C2: for a DICOM stack of 3-component byte data with any number of       *)
(* slices, the temp raw file handed to the builder holds, for every voxel  *)
(* of every slice, the input triple followed by 255.                       *)
(***************************************************************************)
InputBytes(s) == Concat([e \in 1..Len(s.m_Elements) |-> s.m_Elements[e].bytes])

C2_PaddedEveryVoxel ==
  (/\ stackPc = "done"
   /\ rawArgs.called
   /\ stackIn.m_strFileType = "DICOM"
   /\ stackIn.m_iComponentCount = 3
   /\ stackIn.m_iAllocated = 8)
  => /\ Len(tempData) = (Len(InputBytes(stackIn)) \div 3) * 4
     /\ tempData = PadRGBA(InputBytes(stackIn))

(***************************************************************************)
(* What the builder stores for the raw stream it is handed: with the       *)
(* swap flag set, RAWConverter::ConvertRAWDataset swaps the bytes of every *)
(* component of the stream.                                                *)
(***************************************************************************)
BuilderPayload(raw, args) ==
  IF args.swap THEN SwapBuffer(raw, args.bits \div 8) ELSE raw

\* the samples of the stack in the byte order of the host
HostNative(s) ==
  IF s.m_bIsBigEndian # HostIsBigEndian
    THEN SwapBuffer(InputBytes(s), s.m_iAllocated \div 8)
    ELSE InputBytes(s)

(***************************************************************************)
(* C21: for a stack whose endianness differs from the host's and whose     *)
(* samples are 16, 32 or 64 bits wide, every sample is byte-swapped        *)
(* exactly once by the in-memory swap together with the swap flag handed   *)
(* to the builder, so the UVF holds host-native samples; 8-bit samples are *)
(* never swapped.                                                          *)
(***************************************************************************)
C21_SwappedExactlyOnce ==
  (/\ stackPc = "done"
   /\ rawArgs.called
   /\ stackIn.m_bIsBigEndian # HostIsBigEndian
   /\ stackIn.m_iComponentCount # 3
   /\ (stackIn.m_strFileType = "IMAGE" \/ ~stackIn.m_bIsJPEGEncoded))
  => BuilderPayload(tempData, rawArgs) = HostNative(stackIn)

(***************************************************************************)
(* C29: ConvertDataset on a stack leaves the caller's stack descriptor as  *)
(* it was, so a second conversion of the same stack sees the same          *)
(* component count and allocated width as the first.                       *)
(***************************************************************************)
C29_StackUnchanged ==
  stackPc = "done" => pStack = stackIn

(***************************************************************************)
(* Per-brick min/max (minmax_input, get_brick_minmax).                     *)
(*                                                                         *)
(* Voxel values are integers of the voxel type.  A uint32_t value v is     *)
(* held as v - 2^31, an order-preserving shift that keeps every value of   *)
(* the type inside the range of the model checker's integers; all other    *)
(* types hold the value itself.                                            *)
(***************************************************************************)
IntegerTypes == {"int8_t", "uint8_t", "int16_t", "uint16_t", "int32_t",
                 "uint32_t"}

IsSigned(T) == T \in {"int8_t", "int16_t", "int32_t"}

BitWidth(T) ==
  CASE T \in {"int8_t", "uint8_t"} -> 8
    [] T \in {"int16_t", "uint16_t"} -> 16
    [] OTHER -> 32

\* std::numeric_limits<T>::max()
NumericMax(T) ==
  CASE T = "int8_t" -> 127
    [] T = "uint8_t" -> 255
    [] T = "int16_t" -> 32767
    [] T = "uint16_t" -> 65535
    [] OTHER -> 2147483647

\* std::numeric_limits<T>::min()
NumericMin(T) ==
  CASE T = "int8_t" -> -128
    [] T = "int16_t" -> -32768
    [] T \in {"uint8_t", "uint16_t"} -> 0
    [] OTHER -> -2147483647 - 1

\* the representation of the value 0 of type T
ZeroOf(T) == IF T = "uint32_t" THEN NumericMin(T) ELSE 0

\* conversion of an int to an 8 or 16 bit type T
ConvertTo(T, v) ==
  LET m == IF BitWidth(T) = 8 THEN 256 ELSE 65536
  IN IF IsSigned(T)
       THEN ((v + m \div 2) % m) - m \div 2
       ELSE v % m

\* -std::numeric_limits<T>::max() as stored in a std::pair<T,T>: types
\* narrower than int are negated as int and converted back to T; int32_t
\* negates without overflow; uint32_t negates modulo 2^32, which gives 1.
NegatedMax(T) ==
  CASE BitWidth(T) < 32 -> ConvertTo(T, -NumericMax(T))
    [] T = "int32_t" -> -NumericMax(T)
    [] OTHER -> ZeroOf(T) + 1

StdMin(a, b) == IF a < b THEN a ELSE b
StdMax(a, b) == IF b < a THEN a ELSE b

RECURSIVE minmax_loop(_, _)
minmax_loop(s, retval) ==
  IF s = <<>> THEN retval
  ELSE minmax_loop(Tail(s), <<StdMin(Head(s), retval[1]),
                              StdMax(Head(s), retval[2])>>)

minmax_input(T, s) == minmax_loop(s, <<NumericMax(T), NegatedMax(T)>>)

get_brick_minmax(T, s) ==
  LET mm == minmax_input(T, s)
  IN [x |-> mm[1], y |-> mm[2]]

\* voxel values at and next to the ends of the type's range and around 0
VoxelValues(T) ==
  { NumericMin(T), NumericMin(T) + 1, ZeroOf(T), ZeroOf(T) + 1,
    NumericMax(T) - 1, NumericMax(T) }
    \cup (IF IsSigned(T) THEN {-1} ELSE {})

Bricks(T) ==
  UNION { [1..n -> VoxelValues(T)] : n \in 1..MaxBrickLen }

MinMaxInit ==
  /\ vtype \in IntegerTypes
  /\ data \in Bricks(vtype)
  /\ mmv = [x |-> 0, y |-> 0]
  /\ mmPc = "start"

BrickMinMax ==
  /\ mmPc = "start"
  /\ mmv' = get_brick_minmax(vtype, data)
  /\ mmPc' = "done"
  /\ UNCHANGED <<fs, vtype, data, notMinMax>>

MinMaxNext == BrickMinMax

InitMinMax ==
  /\ fs = {} /\ StackIdle /\ MinMaxInit /\ RegistryIdle /\ MergeIdle
  /\ ConvIdle /\ OthersIdle
SpecMinMax == InitMinMax /\ [][MinMaxNext]_vars

(***************************************************************************)
(* C3: for every non-empty brick of every supported integer voxel type,    *)
(* the emitted (mn,mx) is the minimum and the maximum of the brick's       *)
(* voxels.                                                                 *)
(***************************************************************************)
BrickValues == { data[i] : i \in 1..Len(data) }

C3_MinMaxOfBrick ==
  mmPc = "done" =>
    /\ mmv.x \in BrickValues /\ \A v \in BrickValues : mmv.x <= v
    /\ mmv.y \in BrickValues /\ \A v \in BrickValues : mmv.y >= v

(***************************************************************************)
(* Converters: identification and the conversion chains.                   *)
(***************************************************************************)
\* SupportedExt() of each converter object
SupportedExt(c) ==
  CASE c = 1 -> <<"DAT">>
    [] c = 2 -> <<"NRRD", "NHDR">>
    [] c = 3 -> <<"NRRD">>
    [] OTHER -> <<"RAW">>

Registered == { m_vpConverters[k] : k \in 1..Len(m_vpConverters) }

\* the std::set<AbstrConverter*> returned by identify_converters, given the
\* converters whose CanRead accepts the file
identify_converters(accept) == Registered \cap accept

\* iteration order of a std::set<AbstrConverter*>: ascending pointer value
RECURSIVE InSetOrder(_)
InSetOrder(S) ==
  IF S = {} THEN <<>>
  ELSE LET c == CHOOSE c \in S : \A d \in S : addr[c] <= addr[d]
       IN <<c>> \o InSetOrder(S \ {c})

\* the loop over the identified converters: bRAWCreated after the loop, when
\* rawOK are the converters whose ConvertToRAW succeeds on the file
RECURSIVE ToRawLoop(_, _, _)
ToRawLoop(convs, rawOK, b) ==
  IF convs = <<>> THEN b
  ELSE IF Head(convs) \in rawOK THEN TRUE
  ELSE ToRawLoop(Tail(convs), rawOK, FALSE)

\* bRAWCreated after the loop and the fallback to the final converter
ToRawChain(convs, rawOK, b) ==
  LET b1 == ToRawLoop(convs, rawOK, b)
  IN IF ~b1 /\ m_pFinalConverter # NoConverter
       THEN m_pFinalConverter \in rawOK
       ELSE b1

\* some ConvertToRAW was invoked by the loop or the fallback
ToRawInvoked(convs, rawOK, b) ==
  \/ convs # <<>>
  \/ (~ToRawLoop(convs, rawOK, b) /\ m_pFinalConverter # NoConverter)

\* the converters whose ConvertToNative is invoked, in order, for a target
\* extension, when nativeOK are the converters whose ConvertToNative succeeds
RECURSIVE NativeLoop(_, _, _, _)
NativeLoop(k, l, ext, nativeOK) ==
  IF k > Len(m_vpConverters) THEN <<>>
  ELSE IF l > Len(SupportedExt(m_vpConverters[k]))
    THEN NativeLoop(k + 1, 1, ext, nativeOK)
  ELSE IF SupportedExt(m_vpConverters[k])[l] = ext
    THEN IF m_vpConverters[k] \in nativeOK
           THEN <<m_vpConverters[k]>>
           ELSE <<m_vpConverters[k]>> \o NativeLoop(k, l + 1, ext, nativeOK)
  ELSE NativeLoop(k, l + 1, ext, nativeOK)

\* bTargetCreated after the loop
NativeCreated(called, nativeOK) ==
  called # <<>> /\ called[Len(called)] \in nativeOK

TargetExts == {"UVF", "NRRD", "XYZ"}

(***************************************************************************)
(* MergeDatasets.                                                          *)
(***************************************************************************)
MergedFile == "merged.raw"

\* IntermediateFile.strFilename of source i
RawName(i) == "raw" \o ToString(i)

BaseMeta == [bits |-> 8, components |-> 1, endian |-> FALSE,
             signed |-> FALSE, float |-> FALSE, size |-> 1, aspect |-> 1]

Metas ==
  { BaseMeta,
    [BaseMeta EXCEPT !.bits = 16],
    [BaseMeta EXCEPT !.components = 3],
    [BaseMeta EXCEPT !.endian = TRUE],
    [BaseMeta EXCEPT !.signed = TRUE],
    [BaseMeta EXCEPT !.float = TRUE],
    [BaseMeta EXCEPT !.size = 2],
    [BaseMeta EXCEPT !.aspect = 2],
    [BaseMeta EXCEPT !.bits = 32, !.signed = TRUE, !.float = TRUE] }

UVFMetas ==
  { BaseMeta,
    [BaseMeta EXCEPT !.float = TRUE],
    [BaseMeta EXCEPT !.size = 2],
    [BaseMeta EXCEPT !.aspect = 2] }

UVFSource(opens, exportOK, meta) ==
  [uvf |-> TRUE, opens |-> opens, exportOK |-> exportOK, accept |-> {},
   rawOK |-> {}, meta |-> meta, bDelete |-> TRUE]

RawSource(accept, rawOK, meta, bDelete) ==
  [uvf |-> FALSE, opens |-> TRUE, exportOK |-> FALSE, accept |-> accept,
   rawOK |-> rawOK, meta |-> meta, bDelete |-> bDelete]

\* the sources a call can be given: UVF files that cannot be opened, whose
\* export fails or succeeds; other files that a converter, the final
\* converter or nobody turns into a raw file
MergeSources ==
  { UVFSource(FALSE, FALSE, BaseMeta), UVFSource(TRUE, FALSE, BaseMeta) }
    \cup { UVFSource(TRUE, TRUE, m) : m \in UVFMetas }
    \cup { RawSource({1}, {1}, m, TRUE) : m \in Metas }
    \cup { RawSource({1}, {1}, BaseMeta, FALSE),
           RawSource({1, 2}, {2}, BaseMeta, TRUE),
           RawSource({1}, {}, BaseMeta, TRUE),
           RawSource({1}, {3}, BaseMeta, TRUE),
           RawSource({}, {}, BaseMeta, TRUE),
           RawSource({}, {3}, BaseMeta, TRUE) }

\* the comparison of the six attributes
SameType(a, b) ==
  /\ a.bits = b.bits
  /\ a.components = b.components
  /\ a.endian = b.endian
  /\ a.signed = b.signed
  /\ a.float = b.float
  /\ a.size = b.size

\* the type dispatch constructs a DataMerger for this type
HasMergerCase(m) ==
  IF m.signed /\ m.float THEN m.bits \in {32, 64}
  ELSE m.bits \in {8, 16, 32, 64}

RemoveIntermediates(files) ==
  files \ { vIntermediateFiles[i].strFilename :
              i \in { k \in 1..Len(vIntermediateFiles) :
                        vIntermediateFiles[k].bDelete } }

\* the files after DataMerger ran on the intermediates: merged.raw holds
\* the merged volume, or was removed again when the merge failed
DataMerger(files, isOK) ==
  IF isOK THEN files \cup {MergedFile} ELSE files \ {MergedFile}

MergeInit ==
  /\ m_vpConverters = <<1, 2>>
  /\ m_pFinalConverter \in {NoConverter, 3}
  /\ addr \in {<<1, 2, 3>>, <<2, 1, 3>>}
  /\ strFilenames \in UNION { [1..n -> MergeSources] : n \in 0..MaxSources }
  /\ iInputData = 1
  /\ bRAWCreated = FALSE
  /\ vIntermediateFiles = <<>>
  /\ metaG = NoMeta
  /\ mergePc = "loop"
  /\ mergerCalls = <<>>
  /\ targetCalls = <<>>
  /\ mergeResult = FALSE

\* one iteration of the loop over the sources, for a UVF source
MergeUVFSource ==
  /\ mergePc = "loop"
  /\ iInputData <= Len(strFilenames)
  /\ strFilenames[iInputData].uvf
  /\ LET src == strFilenames[iInputData]
         mismatch == iInputData > 1 /\ ~SameType(metaG, src.meta)
     IN IF ~src.opens
          THEN /\ mergePc' = "done"
               /\ mergeResult' = FALSE
               /\ UNCHANGED <<fs, iInputData, bRAWCreated,
                              vIntermediateFiles, metaG>>
          ELSE IF mismatch
          THEN /\ bRAWCreated' = FALSE
               /\ mergePc' = "afterloop"
               /\ UNCHANGED <<fs, iInputData, vIntermediateFiles, metaG,
                              mergeResult>>
          ELSE IF ~src.exportOK
          THEN /\ fs' = fs \ {RawName(iInputData)}
               /\ metaG' = IF iInputData = 1 THEN src.meta ELSE metaG
               /\ mergePc' = "afterloop"
               /\ UNCHANGED <<iInputData, bRAWCreated, vIntermediateFiles,
                              mergeResult>>
          ELSE /\ fs' = fs \cup {RawName(iInputData)}
               /\ metaG' = IF iInputData = 1 THEN src.meta ELSE metaG
               /\ bRAWCreated' = TRUE
               /\ vIntermediateFiles' =
                    Append(vIntermediateFiles,
                           [strFilename |-> RawName(iInputData),
                            bDelete |-> TRUE])
               /\ iInputData' = iInputData + 1
               /\ mergePc' = IF iInputData = Len(strFilenames)
                               THEN "afterloop" ELSE "loop"
               /\ UNCHANGED mergeResult
  /\ UNCHANGED <<strFilenames, mergerCalls, targetCalls, notMerge>>

\* one iteration of the loop over the sources, for any other source
MergeRawSource ==
  /\ mergePc = "loop"
  /\ iInputData <= Len(strFilenames)
  /\ ~strFilenames[iInputData].uvf
  /\ LET src == strFilenames[iInputData]
         convs == InSetOrder(identify_converters(src.accept))
         created == ToRawChain(convs, src.rawOK, bRAWCreated)
         invoked == ToRawInvoked(convs, src.rawOK, bRAWCreated)
         \* without any ConvertToRAW call the locals keep their initial
         \* values and IntermediateFile stays default-constructed
         meta == IF invoked THEN src.meta ELSE NoMeta
         file == IF invoked
                   THEN [strFilename |-> RawName(iInputData),
                         bDelete |-> src.bDelete]
                   ELSE [strFilename |-> "", bDelete |-> FALSE]
     IN IF ~created
          THEN /\ bRAWCreated' = FALSE
               /\ mergePc' = "afterloop"
               /\ UNCHANGED <<fs, iInputData, vIntermediateFiles, metaG>>
          ELSE /\ fs' = IF invoked THEN fs \cup {RawName(iInputData)} ELSE fs
               /\ vIntermediateFiles' = Append(vIntermediateFiles, file)
               /\ IF iInputData = 1
                    THEN /\ metaG' = meta
                         /\ bRAWCreated' = TRUE
                         /\ iInputData' = iInputData + 1
                         /\ mergePc' = IF iInputData = Len(strFilenames)
                                         THEN "afterloop" ELSE "loop"
                    ELSE IF ~SameType(metaG, meta)
                    THEN /\ bRAWCreated' = FALSE
                         /\ mergePc' = "afterloop"
                         /\ UNCHANGED <<iInputData, metaG>>
                    ELSE /\ bRAWCreated' = TRUE
                         /\ iInputData' = iInputData + 1
                         /\ mergePc' = IF iInputData = Len(strFilenames)
                                         THEN "afterloop" ELSE "loop"
                         /\ UNCHANGED metaG
  /\ UNCHANGED <<strFilenames, mergerCalls, targetCalls, mergeResult,
                 notMerge>>

\* the loop over an empty list of sources
MergeNoSource ==
  /\ mergePc = "loop"
  /\ Len(strFilenames) = 0
  /\ mergePc' = "afterloop"
  /\ UNCHANGED <<fs, strFilenames, iInputData, bRAWCreated,
                 vIntermediateFiles, metaG, mergerCalls, targetCalls,
                 mergeResult, notMerge>>

\* no raw files: delete the intermediate files and bail
MergeBail ==
  /\ mergePc = "afterloop"
  /\ ~bRAWCreated
  /\ fs' = RemoveIntermediates(fs)
  /\ mergeResult' = FALSE
  /\ mergePc' = "done"
  /\ UNCHANGED <<strFilenames, iInputData, bRAWCreated, vIntermediateFiles,
                 metaG, mergerCalls, targetCalls, notMerge>>

\* the type dispatch, DataMerger, and the removal of the intermediate files
MergeRun ==
  /\ mergePc = "afterloop"
  /\ bRAWCreated
  /\ IF ~metaG.signed /\ metaG.float
       THEN /\ mergeResult' = FALSE
            /\ mergePc' = "done"
            /\ UNCHANGED <<fs, mergerCalls>>
       ELSE \E isOK \in BOOLEAN :
              LET constructed == HasMergerCase(metaG)
                  bIsMerged == constructed /\ isOK
              IN /\ mergerCalls' =
                      IF constructed
                        THEN Append(mergerCalls,
                               [i \in 1..Len(vIntermediateFiles) |->
                                  vIntermediateFiles[i].strFilename])
                        ELSE mergerCalls
                 /\ fs' = RemoveIntermediates(
                            IF constructed THEN DataMerger(fs, isOK) ELSE fs)
                 /\ mergeResult' = FALSE
                 /\ mergePc' = IF bIsMerged THEN "target" ELSE "done"
  /\ UNCHANGED <<strFilenames, iInputData, bRAWCreated, vIntermediateFiles,
                 metaG, targetCalls, notMerge>>

\* conversion of merged.raw into the target, and removal of merged.raw
MergeTarget ==
  /\ mergePc = "target"
  /\ \E strExtTarget \in TargetExts, ok \in BOOLEAN,
        nativeOK \in SUBSET Registered :
       IF strExtTarget = "UVF"
         THEN /\ nativeOK = {}
              /\ targetCalls' = <<"ConvertRAWDataset">>
              /\ mergeResult' = ok
              /\ fs' = (IF ok THEN fs \cup {TargetFile} ELSE fs)
                         \ {MergedFile}
         ELSE LET called == NativeLoop(1, 1, strExtTarget, nativeOK)
                  bTargetCreated == NativeCreated(called, nativeOK)
              IN /\ ok
                 /\ targetCalls' = called
                 /\ mergeResult' = bTargetCreated
                 /\ fs' = (IF bTargetCreated THEN fs \cup {TargetFile}
                           ELSE fs) \ {MergedFile}
  /\ mergePc' = "done"
  /\ UNCHANGED <<strFilenames, iInputData, bRAWCreated, vIntermediateFiles,
                 metaG, mergerCalls, notMerge>>

MergeNext ==
  \/ MergeUVFSource
  \/ MergeRawSource
  \/ MergeNoSource
  \/ MergeBail
  \/ MergeRun
  \/ MergeTarget

InitMerge ==
  /\ fs = {} /\ StackIdle /\ MinMaxIdle /\ MergeInit /\ ConvIdle
  /\ OthersIdle
SpecMerge == InitMerge /\ [][MergeNext]_vars

(***************************************************************************)
(* C4: if any source differs from the first in bit width, component count, *)
(* endianness delta, signedness, float-ness or domain size, MergeDatasets  *)
(* returns false, never invokes the Merger or the target conversion and    *)
(* leaves neither the target nor merged.raw behind; sources that differ    *)
(* in aspect ratio only are handed to the Merger.                          *)
(***************************************************************************)
SixAttributes(m) ==
  <<m.bits, m.components, m.endian, m.signed, m.float, m.size>>

SomeSourceDiffers ==
  \E k \in 2..Len(strFilenames) :
     SixAttributes(strFilenames[k].meta) # SixAttributes(strFilenames[1].meta)

\* the source can be turned into a raw intermediate
SourceUsable(s) ==
  IF s.uvf THEN s.opens /\ s.exportOK
  ELSE \/ (s.accept \cap Registered \cap s.rawOK) # {}
       \/ (m_pFinalConverter # NoConverter /\ m_pFinalConverter \in s.rawOK)

AllSourcesUsable ==
  \A k \in 1..Len(strFilenames) : SourceUsable(strFilenames[k])

\* the source is exported by the UVF reader or converted by a converter
\* that identified it
SourceIdentified(s) ==
  IF s.uvf THEN s.opens /\ s.exportOK
  ELSE (s.accept \cap Registered \cap s.rawOK) # {}

C4_IncompatibleSourcesFail ==
  mergePc = "done" =>
    /\ SomeSourceDiffers =>
         /\ ~mergeResult
         /\ mergerCalls = <<>>
         /\ targetCalls = <<>>
         /\ TargetFile \notin fs
         /\ MergedFile \notin fs
    /\ (/\ Len(strFilenames) > 0
        /\ \A k \in 1..Len(strFilenames) : SourceIdentified(strFilenames[k])
        /\ ~SomeSourceDiffers
        /\ HasMergerCase(strFilenames[1].meta)
        /\ (strFilenames[1].meta.float => strFilenames[1].meta.signed))
       => Len(mergerCalls) = 1

(***************************************************************************)
(* C5: the Merger is handed exactly one raw intermediate per source, in    *)
(* source order; if any source cannot be opened, exported or converted to  *)
(* raw, or the source list is empty, the Merger is not invoked and the     *)
(* call returns false.                                                     *)
(***************************************************************************)
C5_OneIntermediatePerSource ==
  mergePc = "done" =>
    /\ \A c \in 1..Len(mergerCalls) :
         mergerCalls[c] = [i \in 1..Len(strFilenames) |-> RawName(i)]
    /\ (Len(strFilenames) = 0 \/ ~AllSourcesUsable) =>
         (~mergeResult /\ mergerCalls = <<>>)

(***************************************************************************)
(* C6: after MergeDatasets has returned, on any path, no intermediate raw  *)
(* file whose delete flag is set exists, and merged.raw does not exist.    *)
(***************************************************************************)
C6_NoIntermediateLeft ==
  mergePc = "done" =>
    /\ MergedFile \notin fs
    /\ \A i \in 1..Len(strFilenames) :
         RawName(i) \in fs =>
           (~strFilenames[i].uvf /\ ~strFilenames[i].bDelete)

(***************************************************************************)
(* Registration of converters.                                             *)
(***************************************************************************)
\* the converter objects that exist; the constructor registers the
\* built-in ones
ConverterObjects == 1..MaxConv
BuiltinConverters == <<1>>

\* a converter object the manager does not own yet
Fresh(c) == c \notin Registered /\ c # m_pFinalConverter

\* the addresses after an object was allocated at rank r among the
\* registered ones
AddrWith(c, r) ==
  [d \in DOMAIN addr \cup {c} |->
     IF d = c THEN r
     ELSE IF addr[d] >= r THEN addr[d] + 1 ELSE addr[d]]

RegisterExternalConverter ==
  /\ convPc = "setup"
  /\ \E pConverter \in ConverterObjects, r \in 1..(Len(m_vpConverters) + 1) :
       /\ Fresh(pConverter)
       /\ m_vpConverters' = Append(m_vpConverters, pConverter)
       /\ addr' = AddrWith(pConverter, r)
  /\ UNCHANGED <<fs, m_pFinalConverter, convVars, notConv>>

RegisterFinalConverter ==
  /\ convPc = "setup"
  /\ \E pConverter \in ConverterObjects :
       /\ Fresh(pConverter)
       /\ m_pFinalConverter' = pConverter
  /\ UNCHANGED <<fs, m_vpConverters, addr, convVars, notConv>>

(***************************************************************************)
(* ConvertDataset on a list of files.                                      *)
(***************************************************************************)
IntermediateFile == "intermediate.raw"

Event(op, conv, ok, block) ==
  [op |-> op, conv |-> conv, ok |-> ok, block |-> block]

\* the block read_first_block leaves in the vector: the first 512 bytes of
\* the file, or the zeros of the resize when the stream could not be read
read_first_block(readable) == IF readable THEN "first512" ELSE "zeros"

ReadEvent(readable) ==
  Event("read_first_block", NoConverter, readable,
        read_first_block(readable))

ConvInit ==
  /\ m_vpConverters = BuiltinConverters
  /\ m_pFinalConverter = NoConverter
  /\ addr = [c \in {1} |-> 1]
  /\ call = NoCall
  /\ convPc = "setup"
  /\ log = <<>>
  /\ bytes = "none"
  /\ converters = {}
  /\ pending = <<>>
  /\ cbegin = 1
  /\ strIntermediateFile = ""
  /\ bDeleteIntermediateFile = FALSE
  /\ convResult = FALSE

\* entry of the call without the rejection of several files for a target
\* that is not UVF
ConvertCall_NoMultiCheck ==
  /\ convPc = "setup"
  /\ \E n \in 0..2, srcUVF \in BOOLEAN, strExtTarget \in TargetExts,
        readable \in BOOLEAN :
       /\ call' = [files |-> n, srcUVF |-> srcUVF,
                   strExtTarget |-> strExtTarget, readable |-> readable]
       /\ IF n = 0
            THEN convPc' = "done" /\ UNCHANGED log
          ELSE IF strExtTarget = "UVF"
            THEN convPc' = "identify" /\ UNCHANGED log
          ELSE IF srcUVF
            THEN convPc' = "export" /\ UNCHANGED log
          ELSE /\ convPc' = "identify"
               /\ log' = Append(log, ReadEvent(readable))
  /\ UNCHANGED <<fs, regVars, bytes, converters, pending, cbegin,
                 strIntermediateFile, bDeleteIntermediateFile, convResult,
                 notConv>>

\* entry of the call, up to the first use of a file or a converter
ConvertCall ==
  /\ convPc = "setup"
  /\ \E n \in 0..2, srcUVF \in BOOLEAN, strExtTarget \in TargetExts,
        readable \in BOOLEAN :
       /\ call' = [files |-> n, srcUVF |-> srcUVF,
                   strExtTarget |-> strExtTarget, readable |-> readable]
       /\ IF n = 0
            THEN convPc' = "done" /\ UNCHANGED log
          ELSE IF strExtTarget = "UVF"
            THEN convPc' = "identify" /\ UNCHANGED log
          ELSE IF n > 1
            THEN convPc' = "done" /\ UNCHANGED log
          ELSE IF srcUVF
            THEN convPc' = "export" /\ UNCHANGED log
          ELSE /\ convPc' = "identify"
               /\ log' = Append(log, ReadEvent(readable))
  /\ UNCHANGED <<fs, regVars, bytes, converters, pending, cbegin,
                 strIntermediateFile, bDeleteIntermediateFile, convResult,
                 notConv>>

\* where the call continues once the set of converters is built
AfterIdentify == IF call.strExtTarget = "UVF" THEN "touvf" ELSE "toraw"

\* identify_converters: reading the first block
IdentifyRead ==
  /\ convPc = "identify"
  /\ log' = Append(log, ReadEvent(call.readable))
  /\ bytes' = read_first_block(call.readable)
  /\ converters' = {}
  /\ cbegin' = 1
  /\ pending' = <<>>
  /\ convPc' = IF Len(m_vpConverters) = 0 THEN AfterIdentify ELSE "sniff"
  /\ UNCHANGED <<fs, regVars, call, strIntermediateFile,
                 bDeleteIntermediateFile, convResult, notConv>>

\* identify_converters with a loop that ends at the first converter that
\* can read the file
IdentifySniff_FirstMatch ==
  /\ convPc = "sniff"
  /\ cbegin <= Len(m_vpConverters)
  /\ \E canRead \in BOOLEAN :
       LET c == m_vpConverters[cbegin]
           found == IF canRead THEN converters \cup {c} ELSE converters
       IN /\ log' = Append(log, Event("CanRead", c, canRead, bytes))
          /\ converters' = found
          /\ cbegin' = cbegin + 1
          /\ IF canRead \/ cbegin = Len(m_vpConverters)
               THEN convPc' = AfterIdentify /\ pending' = InSetOrder(found)
               ELSE UNCHANGED <<convPc, pending>>
  /\ UNCHANGED <<fs, regVars, call, bytes, strIntermediateFile,
                 bDeleteIntermediateFile, convResult, notConv>>

\* identify_converters: one iteration of the loop over the registry
IdentifySniff ==
  /\ convPc = "sniff"
  /\ cbegin <= Len(m_vpConverters)
  /\ \E canRead \in BOOLEAN :
       LET c == m_vpConverters[cbegin]
           found == IF canRead THEN converters \cup {c} ELSE converters
       IN /\ log' = Append(log, Event("CanRead", c, canRead, bytes))
          /\ converters' = found
          /\ cbegin' = cbegin + 1
          /\ IF cbegin = Len(m_vpConverters)
               THEN convPc' = AfterIdentify /\ pending' = InSetOrder(found)
               ELSE UNCHANGED <<convPc, pending>>
  /\ UNCHANGED <<fs, regVars, call, bytes, strIntermediateFile,
                 bDeleteIntermediateFile, convResult, notConv>>

\* the loop over the set of converters without the return on success
ConvertToUVF_KeepGoing ==
  /\ convPc = "touvf"
  /\ pending # <<>>
  /\ \E ok \in BOOLEAN :
       /\ log' = Append(log, Event("ConvertToUVF", Head(pending), ok, "-"))
       /\ convResult' = ok
       /\ pending' = Tail(pending)
  /\ UNCHANGED <<fs, regVars, call, convPc, bytes, converters, cbegin,
                 strIntermediateFile, bDeleteIntermediateFile, notConv>>

\* UVF target: one iteration of the loop over the set of converters
ConvertToUVF ==
  /\ convPc = "touvf"
  /\ pending # <<>>
  /\ \E ok \in BOOLEAN :
       /\ log' = Append(log, Event("ConvertToUVF", Head(pending), ok, "-"))
       /\ IF ok
            THEN convPc' = "done" /\ convResult' = TRUE /\ UNCHANGED pending
            ELSE pending' = Tail(pending) /\ UNCHANGED <<convPc, convResult>>
  /\ UNCHANGED <<fs, regVars, call, bytes, converters, cbegin,
                 strIntermediateFile, bDeleteIntermediateFile, notConv>>

\* UVF target: the fallback converter
FinalConvertToUVF ==
  /\ convPc = "touvf"
  /\ pending = <<>>
  /\ IF m_pFinalConverter # NoConverter
       THEN \E ok \in BOOLEAN :
              /\ log' = Append(log, Event("ConvertToUVF", m_pFinalConverter,
                                          ok, "-"))
              /\ convResult' = ok
       ELSE convResult' = FALSE /\ UNCHANGED log
  /\ convPc' = "done"
  /\ UNCHANGED <<fs, regVars, call, bytes, converters, pending, cbegin,
                 strIntermediateFile, bDeleteIntermediateFile, notConv>>

\* other target, UVF source: export of the finest LOD to the intermediate
ExportUVFSource ==
  /\ convPc = "export"
  /\ \E isOpen \in BOOLEAN, exported \in BOOLEAN :
       IF ~isOpen
         THEN /\ ~exported
              /\ convPc' = "done"
              /\ UNCHANGED <<fs, strIntermediateFile,
                             bDeleteIntermediateFile>>
         ELSE /\ strIntermediateFile' = IntermediateFile
              /\ bDeleteIntermediateFile' = TRUE
              /\ fs' = IF exported THEN fs \cup {IntermediateFile}
                       ELSE fs \ {IntermediateFile}
              /\ convPc' = IF exported THEN "tonative" ELSE "done"
  /\ UNCHANGED <<regVars, call, log, bytes, converters, pending, cbegin,
                 convResult, notConv>>

\* other target: one iteration of the ConvertToRAW loop
ConvertToRAW ==
  /\ convPc = "toraw"
  /\ pending # <<>>
  /\ \E ok \in BOOLEAN, bDelete \in BOOLEAN :
       /\ log' = Append(log, Event("ConvertToRAW", Head(pending), ok, "-"))
       /\ IF ok
            THEN /\ strIntermediateFile' = IntermediateFile
                 /\ bDeleteIntermediateFile' = bDelete
                 /\ fs' = fs \cup {IntermediateFile}
                 /\ convPc' = "tonative"
                 /\ UNCHANGED pending
            ELSE /\ ~bDelete
                 /\ pending' = Tail(pending)
                 /\ UNCHANGED <<fs, strIntermediateFile,
                                bDeleteIntermediateFile, convPc>>
  /\ UNCHANGED <<regVars, call, bytes, converters, cbegin, convResult,
                 notConv>>

\* other target: the fallback converter
FinalConvertToRAW ==
  /\ convPc = "toraw"
  /\ pending = <<>>
  /\ IF m_pFinalConverter # NoConverter
       THEN \E ok \in BOOLEAN, bDelete \in BOOLEAN :
              /\ log' = Append(log, Event("ConvertToRAW", m_pFinalConverter,
                                          ok, "-"))
              /\ IF ok
                   THEN /\ strIntermediateFile' = IntermediateFile
                        /\ bDeleteIntermediateFile' = bDelete
                        /\ fs' = fs \cup {IntermediateFile}
                        /\ convPc' = "tonative"
                   ELSE /\ ~bDelete
                        /\ convPc' = "done"
                        /\ UNCHANGED <<fs, strIntermediateFile,
                                       bDeleteIntermediateFile>>
       ELSE /\ convPc' = "done"
            /\ UNCHANGED <<fs, log, strIntermediateFile,
                           bDeleteIntermediateFile>>
  /\ UNCHANGED <<regVars, call, bytes, converters, pending, cbegin,
                 convResult, notConv>>

\* the ConvertToNative loop with the intermediate removed only when the
\* target was written
ConvertToNative_KeepOnFailure ==
  /\ convPc = "tonative"
  /\ \E nativeOK \in SUBSET Registered :
       LET called == NativeLoop(1, 1, call.strExtTarget, nativeOK)
           bTargetCreated == NativeCreated(called, nativeOK)
       IN /\ log' = log \o [i \in 1..Len(called) |->
                              Event("ConvertToNative", called[i],
                                    called[i] \in nativeOK, "-")]
          /\ fs' = (IF bTargetCreated THEN fs \cup {TargetFile} ELSE fs)
                     \ (IF bDeleteIntermediateFile /\ bTargetCreated
                          THEN {strIntermediateFile} ELSE {})
          /\ convResult' = bTargetCreated
  /\ convPc' = "done"
  /\ UNCHANGED <<regVars, call, bytes, converters, pending, cbegin,
                 strIntermediateFile, bDeleteIntermediateFile, notConv>>

\* other target: the ConvertToNative loop and the removal of the intermediate
ConvertToNative ==
  /\ convPc = "tonative"
  /\ \E nativeOK \in SUBSET Registered :
       LET called == NativeLoop(1, 1, call.strExtTarget, nativeOK)
           bTargetCreated == NativeCreated(called, nativeOK)
       IN /\ log' = log \o [i \in 1..Len(called) |->
                              Event("ConvertToNative", called[i],
                                    called[i] \in nativeOK, "-")]
          /\ fs' = (IF bTargetCreated THEN fs \cup {TargetFile} ELSE fs)
                     \ (IF bDeleteIntermediateFile
                          THEN {strIntermediateFile} ELSE {})
          /\ convResult' = bTargetCreated
  /\ convPc' = "done"
  /\ UNCHANGED <<regVars, call, bytes, converters, pending, cbegin,
                 strIntermediateFile, bDeleteIntermediateFile, notConv>>

ConvNext ==
  \/ RegisterExternalConverter
  \/ RegisterFinalConverter
  \/ ConvertCall
  \/ IdentifyRead
  \/ IdentifySniff
  \/ ConvertToUVF
  \/ FinalConvertToUVF
  \/ ExportUVFSource
  \/ ConvertToRAW
  \/ FinalConvertToRAW
  \/ ConvertToNative

InitConv ==
  /\ fs = {} /\ StackIdle /\ MinMaxIdle /\ MergeIdle /\ ConvInit
  /\ OthersIdle
SpecConv == InitConv /\ [][ConvNext]_vars

(***************************************************************************)
(* What the log says about a call.                                         *)
(***************************************************************************)
ReadEvents == SelectSeq(log, LAMBDA e : e.op = "read_first_block")
SniffEvents == SelectSeq(log, LAMBDA e : e.op = "CanRead")
ToUVFEvents == SelectSeq(log, LAMBDA e : e.op = "ConvertToUVF")

\* the converters whose sniffer accepted the file
Accepting ==
  { SniffEvents[i].conv : i \in { k \in 1..Len(SniffEvents) :
                                    SniffEvents[k].ok } }

AcceptingInRegistrationOrder ==
  SelectSeq(m_vpConverters, LAMBDA c : c \in Accepting)

\* ConvertToUVF calls on identified converters, and on the final converter
OrdinaryToUVF ==
  SelectSeq(ToUVFEvents, LAMBDA e : e.conv # m_pFinalConverter)
FinalToUVF ==
  SelectSeq(ToUVFEvents, LAMBDA e : e.conv = m_pFinalConverter)

\* identify_converters has returned
Identified ==
  \/ convPc \in {"touvf", "toraw"}
  \/ convPc \in {"tonative", "done"} /\ bytes # "none"

UVFTargetDone ==
  convPc = "done" /\ call.files > 0 /\ call.strExtTarget = "UVF"

(***************************************************************************)
(* C7: with a UVF target, ConvertToUVF is invoked on the accepting         *)
(* converters in registration order, whatever the addresses of the         *)
(* converter objects.                                                      *)
(***************************************************************************)
C7_RegistrationOrder ==
  (UVFTargetDone /\ call.readable) =>
    \A i \in 1..Len(OrdinaryToUVF) :
       OrdinaryToUVF[i].conv = AcceptingInRegistrationOrder[i]

(***************************************************************************)
(* C8: with a UVF target the call returns true iff some accepting          *)
(* converter's ConvertToUVF succeeds or, after every accepting converter   *)
(* has failed, the final converter is registered and its ConvertToUVF      *)
(* succeeds; no converter is invoked after the first success, the final    *)
(* converter is invoked at most once and only after every accepting        *)
(* converter has failed, and without accepting and final converter the     *)
(* result is false.                                                        *)
(***************************************************************************)
C8_FirstSuccessOrFinal ==
  UVFTargetDone =>
    /\ convResult = (\E i \in 1..Len(ToUVFEvents) : ToUVFEvents[i].ok)
    /\ \A i \in 1..(Len(ToUVFEvents) - 1) : ~ToUVFEvents[i].ok
    /\ \A i \in 1..Len(OrdinaryToUVF) : OrdinaryToUVF[i].conv \in Accepting
    /\ Len(FinalToUVF) <= 1
    /\ Len(FinalToUVF) = 1 =>
         /\ ToUVFEvents[Len(ToUVFEvents)].conv = m_pFinalConverter
         /\ \A c \in Accepting :
              \E i \in 1..Len(OrdinaryToUVF) :
                 OrdinaryToUVF[i].conv = c /\ ~OrdinaryToUVF[i].ok
    /\ ~convResult =>
         /\ \A c \in Accepting :
              \E i \in 1..Len(OrdinaryToUVF) : OrdinaryToUVF[i].conv = c
         /\ m_pFinalConverter # NoConverter => Len(FinalToUVF) = 1
    /\ (Accepting = {} /\ m_pFinalConverter = NoConverter) =>
         (~convResult /\ ToUVFEvents = <<>>)

\* two accepting converters failed and the final converter succeeded
C8_Witness ==
  /\ UVFTargetDone
  /\ convResult
  /\ Len(OrdinaryToUVF) = 2
  /\ Len(FinalToUVF) = 1

(***************************************************************************)
(* C9: identify returns exactly the registered converters whose sniffer    *)
(* accepts the file: every registered converter's sniffer is called        *)
(* exactly once, in registration order, with the same block (the first     *)
(* 512 bytes of a readable file), and every accepting one is in the set.   *)
(***************************************************************************)
C9_IdentifyAllAccepting ==
  Identified =>
    /\ [i \in 1..Len(SniffEvents) |-> SniffEvents[i].conv] = m_vpConverters
    /\ \A i \in 1..Len(SniffEvents) :
         /\ SniffEvents[i].block = ReadEvents[Len(ReadEvents)].block
         /\ call.readable => SniffEvents[i].block = "first512"
    /\ converters = Accepting
    /\ { pending[i] : i \in 1..Len(pending) } \subseteq Accepting

\* three registered converters, two of which accept a readable file
C9_Witness ==
  /\ Identified
  /\ call.readable
  /\ Len(m_vpConverters) = 3
  /\ Cardinality(converters) = 2

(***************************************************************************)
(* C10: during one identification of the source file inside                *)
(* ConvertDataset, with a UVF target or with another target and a source  *)
(* that is not UVF, the first 512 bytes of the file are read exactly once. *)
(***************************************************************************)
C10_FirstBlockReadOnce ==
  (Identified /\ call.readable) => Len(ReadEvents) = 1

(***************************************************************************)
(* C11: if the first block of the source file cannot be read during        *)
(* identification, no converter's sniffer is offered a block for the file  *)
(* and the operation that called identify fails.                           *)
(***************************************************************************)
C11_ReadErrorPropagates ==
  (Identified /\ ~call.readable) =>
    /\ SniffEvents = <<>>
    /\ convPc = "done" => ~convResult

(***************************************************************************)
(* C12: ConvertDataset with more than one input path and a target that is  *)
(* not UVF returns false without reading a source file, invoking a         *)
(* converter operation or creating a file; with an empty input list it     *)
(* returns false as well.                                                  *)
(***************************************************************************)
C12_MultiInputRejected ==
  (/\ convPc = "done"
   /\ \/ call.files = 0
      \/ call.files > 1 /\ call.strExtTarget # "UVF")
  => /\ ~convResult
     /\ log = <<>>
     /\ fs = {}
     /\ strIntermediateFile = ""

\* two files for a target that is not UVF, with converters that list the
\* target extension registered
C12_Witness ==
  /\ convPc = "done"
  /\ call.files = 2
  /\ call.strExtTarget = "NRRD"
  /\ ~call.srcUVF
  /\ \E c \in Registered : SupportedExt(c)[1] = "NRRD"

(***************************************************************************)
(* C13: with a target that is not UVF, once a raw intermediate has been    *)
(* materialised, the intermediate does not exist on return if its delete   *)
(* flag is set, and it was not removed if its delete flag is clear.        *)
(***************************************************************************)
NativeEvents == SelectSeq(log, LAMBDA e : e.op = "ConvertToNative")

\* the call has returned after an intermediate file was named
IntermediateMaterialised ==
  /\ convPc = "done"
  /\ call.files = 1
  /\ call.strExtTarget # "UVF"
  /\ strIntermediateFile # ""

C13_DeleteFlagHonored ==
  IntermediateMaterialised =>
    /\ bDeleteIntermediateFile => strIntermediateFile \notin fs
    /\ ~bDeleteIntermediateFile => strIntermediateFile \in fs

\* a converter produced an intermediate that is to be deleted, and every
\* converter that lists the target extension failed to write the target
C13_Witness ==
  /\ IntermediateMaterialised
  /\ bDeleteIntermediateFile
  /\ ~call.srcUVF
  /\ ~convResult
  /\ Len(NativeEvents) = 2

(***************************************************************************)
(* ExportDataset and ExtractIsosurface.                                    *)
(***************************************************************************)
\* strTempDir + GetFilename(strTargetFilename) + ".tmp_raw"
TempRawFile == "target.tmp_raw"

ExportExts == TargetExts \cup {"DAT"}

\* the registries the calls run on: converters in any registration order
Registries ==
  { r \in UNION { [1..n -> ConverterObjects] : n \in 1..MaxConv } :
      \A a, b \in 1..Len(r) : r[a] = r[b] => a = b }

ExportCalls ==
  { [op |-> "ExportDataset", strExt |-> e, components |-> 1, bits |-> 8,
     signed |-> FALSE, float |-> FALSE, fsBefore |-> f] :
      e \in ExportExts, f \in SUBSET {TargetFile} }

IsosurfaceCalls ==
  { [op |-> "ExtractIsosurface", strExt |-> "ply", components |-> c,
     bits |-> b, signed |-> sg, float |-> fl, fsBefore |-> f] :
      c \in {1, 3, 4}, b \in {8, 16, 32, 64}, sg \in BOOLEAN,
      fl \in BOOLEAN, f \in SUBSET {TargetFile} }

ExportInit ==
  /\ expCall \in ExportCalls \cup IsosurfaceCalls
  /\ fs = expCall.fsBefore
  /\ m_vpConverters \in Registries
  /\ m_pFinalConverter = NoConverter
  /\ addr = [c \in ConverterObjects |-> c]
  /\ expPc = "start"
  /\ expLog = <<>>
  /\ pExporter = NoConverter
  /\ expResult = FALSE

\* the converter lists the extension
ListsExt(c, ext) ==
  \E l \in 1..Len(SupportedExt(c)) : SupportedExt(c)[l] = ext

\* the first registered converter that lists the extension
ExporterFor(ext) ==
  LET hits == { k \in 1..Len(m_vpConverters) :
                  ListsExt(m_vpConverters[k], ext) }
  IN IF hits = {} THEN NoConverter
     ELSE m_vpConverters[CHOOSE k \in hits : \A h \in hits : k <= h]

ExpEvent(op, conv, ok) == [op |-> op, conv |-> conv, ok |-> ok]

\* ExportDataset: find the converter that handles the output
ExportSelect ==
  /\ expPc = "start"
  /\ expCall.op = "ExportDataset"
  /\ pExporter' = ExporterFor(expCall.strExt)
  /\ IF pExporter' = NoConverter
       THEN expPc' = "done" /\ expResult' = FALSE
       ELSE expPc' = "export" /\ UNCHANGED expResult
  /\ UNCHANGED <<fs, expCall, expLog, notExport>>

\* ExportDataset: export of the LOD to the temp raw file; an export that
\* fails may have written a part of the file
ExportLOD ==
  /\ expPc = "export"
  /\ \E exported \in BOOLEAN, written \in BOOLEAN :
       /\ exported => written
       /\ expLog' = Append(expLog, ExpEvent("Export", NoConverter,
                                            exported))
       /\ fs' = IF written THEN fs \cup {TempRawFile} ELSE fs
       /\ IF exported
            THEN expPc' = "native" /\ UNCHANGED expResult
            ELSE expPc' = "done" /\ expResult' = FALSE
  /\ UNCHANGED <<expCall, pExporter, notExport>>

\* ExportDataset: ConvertToNative of the selected converter, and the
\* removal of the temp raw file
ExportNative ==
  /\ expPc = "native"
  /\ \E bTargetCreated \in BOOLEAN :
       /\ expLog' = Append(expLog, ExpEvent("ConvertToNative", pExporter,
                                            bTargetCreated))
       /\ fs' = (IF bTargetCreated THEN fs \cup {TargetFile} ELSE fs)
                  \ {TempRawFile}
       /\ expResult' = bTargetCreated
  /\ expPc' = "done"
  /\ UNCHANGED <<expCall, pExporter, notExport>>

\* ExtractIsosurface without the test of the component count
IsoScalarCheck_Skipped ==
  /\ expPc = "start"
  /\ expCall.op = "ExtractIsosurface"
  /\ expPc' = "isoselect"
  /\ UNCHANGED <<fs, expCall, expLog, pExporter, expResult, notExport>>

\* ExtractIsosurface: only scalar volumes are supported
IsoScalarCheck ==
  /\ expPc = "start"
  /\ expCall.op = "ExtractIsosurface"
  /\ IF expCall.components # 1
       THEN expPc' = "done" /\ expResult' = FALSE
       ELSE expPc' = "isoselect" /\ UNCHANGED expResult
  /\ UNCHANGED <<fs, expCall, expLog, pExporter, notExport>>

\* the type dispatch constructs marching-cubes data for this voxel type
HasMCCase(c) ==
  IF c.float THEN c.signed /\ c.bits \in {32, 64}
  ELSE c.bits \in {8, 16, 32, 64}

\* m_vpGeoConverters as the constructor fills it
GeoConverters == 1..5

\* ExtractIsosurface: selection of the mesh converter (which of the mesh
\* converters lists the extension is up to them) and of the voxel type
IsoSelect ==
  /\ expPc = "isoselect"
  /\ \E conv \in GeoConverters \cup {NoConverter} :
       /\ expLog' = Append(expLog, ExpEvent("GetGeoConverterForExt", conv,
                                            conv # NoConverter))
       /\ IF conv = NoConverter \/ ~HasMCCase(expCall)
            THEN expPc' = "done" /\ expResult' = FALSE
            ELSE expPc' = "isoexport" /\ UNCHANGED expResult
  /\ UNCHANGED <<fs, expCall, pExporter, notExport>>

\* ExtractIsosurface: the export through the marching-cubes callback, the
\* removal of the temp raw file and, on failure, of the target
IsoExport ==
  /\ expPc = "isoexport"
  /\ \E bResult \in BOOLEAN :
       /\ expLog' = Append(expLog, ExpEvent("Export", NoConverter, bResult))
       /\ fs' = (IF bResult THEN fs \cup {TargetFile} ELSE fs \ {TargetFile})
                  \ {TempRawFile}
       /\ expResult' = bResult
  /\ expPc' = "done"
  /\ UNCHANGED <<expCall, pExporter, notExport>>

ExportNext ==
  \/ ExportSelect
  \/ ExportLOD
  \/ ExportNative
  \/ IsoScalarCheck
  \/ IsoSelect
  \/ IsoExport

InitExport ==
  /\ ExportInit /\ StackIdle /\ MinMaxIdle /\ MergeIdle /\ ConvIdle
  /\ ScanIdle /\ EvalIdle /\ LookupIdle
  /\ LaterIdle
SpecExport == InitExport /\ [][ExportNext]_vars

(***************************************************************************)
(* C14: ExportDataset returns false without creating a temp file when no   *)
(* registered converter lists the target extension; otherwise, after it    *)
(* returned, the temp raw file does not exist and the result is true iff   *)
(* ConvertToNative succeeded.                                              *)
(***************************************************************************)
C14_ExportTempRemoved ==
  (expPc = "done" /\ expCall.op = "ExportDataset") =>
    IF \A c \in Registered : ~ListsExt(c, expCall.strExt)
      THEN /\ ~expResult
           /\ expLog = <<>>
           /\ fs = expCall.fsBefore
      ELSE /\ TempRawFile \notin fs
           /\ expResult = (\E i \in 1..Len(expLog) :
                             /\ expLog[i].op = "ConvertToNative"
                             /\ expLog[i].ok)

(***************************************************************************)
(* C16: ExtractIsosurface on a source whose component count is not 1       *)
(* returns false before a mesh converter is selected and before the temp   *)
(* raw file is created, and leaves the target mesh file as it was.         *)
(***************************************************************************)
C16_NonScalarFailsUpFront ==
  (/\ expPc = "done"
   /\ expCall.op = "ExtractIsosurface"
   /\ expCall.components # 1)
  => /\ ~expResult
     /\ expLog = <<>>
     /\ fs = expCall.fsBefore

\* a 4-component source and a target mesh file that existed before the call
C16_Witness ==
  /\ expPc = "done"
  /\ expCall.op = "ExtractIsosurface"
  /\ expCall.components = 4
  /\ TargetFile \in expCall.fsBefore

(***************************************************************************)
(* ScanDirectory.                                                          *)
(***************************************************************************)
\* the largest size_t; the loop index only ever holds it between the
\* decrement after an erase at index 0 and the increment of the loop
SIZE_MAX == -1

\* --x and ++x on a size_t
SizeDec(x) == IF x = 0 THEN SIZE_MAX ELSE x - 1
SizeInc(x) == IF x = SIZE_MAX THEN 0 ELSE x + 1

\* x < n for a size_t x and a container size n
SizeLess(x, n) == x # SIZE_MAX /\ x < n

\* the validity of the JPEG payload of each element of a stack
Payloads == UNION { [1..n -> BOOLEAN] : n \in 1..MaxSlices }

DicomStack(k, jpeg, valid) ==
  [id |-> k, m_strFileType |-> "DICOM", m_strDesc |-> "series",
   m_bIsJPEGEncoded |-> jpeg, valid |-> valid]

ImageStack(k) ==
  [id |-> 100 + k, m_strFileType |-> "IMAGE", m_strDesc |-> "images",
   m_bIsJPEGEncoded |-> FALSE, valid |-> <<TRUE>>]

\* what DICOMParser::GetDirInfo can find: only a JPEG-encoded stack has
\* payloads that are not valid JPEGs
DicomStacksAt(k) ==
  { DicomStack(k, jp, v) : jp \in BOOLEAN, v \in Payloads }
    \ { DicomStack(k, FALSE, v) :
          v \in { w \in Payloads : \E i \in 1..Len(w) : ~w[i] } }

DicomDirs ==
  UNION { { d \in [1..n -> UNION { DicomStacksAt(k) : k \in 1..n }] :
              \A k \in 1..n : d[k].id = k } : n \in 0..MaxStacks }

ImageDirs == { [k \in 1..n |-> ImageStack(k)] : n \in 0..2 }

ScanInit ==
  /\ parsed \in [dicom : DicomDirs, images : ImageDirs]
  /\ m_FileStacks = parsed.dicom
  /\ stack = 0
  /\ fileStacks = <<>>
  /\ scanPc = "filter"

\* vector::erase(begin() + i), i 0-based
Erase(v, i) == [k \in 1..(Len(v) - 1) |-> IF k <= i THEN v[k] ELSE v[k + 1]]

\* some element of the stack holds a JPEG that cannot be loaded
HasInvalidJPEG(f) == \E i \in 1..Len(f.valid) : ~f.valid[i]

\* the filter that goes on with the next index after an erase
ScanFilterStack_NoStepBack ==
  /\ scanPc = "filter"
  /\ SizeLess(stack, Len(m_FileStacks))
  /\ LET f == m_FileStacks[stack + 1]
     IN IF f.m_bIsJPEGEncoded /\ HasInvalidJPEG(f)
          THEN /\ m_FileStacks' = Erase(m_FileStacks, stack)
               /\ stack' = SizeInc(stack)
          ELSE /\ stack' = SizeInc(stack)
               /\ UNCHANGED m_FileStacks
  /\ UNCHANGED <<fs, parsed, fileStacks, scanPc, notScan>>

\* one iteration of the loop that sorts out DICOM stacks with embedded
\* images that cannot be read
ScanFilterStack ==
  /\ scanPc = "filter"
  /\ SizeLess(stack, Len(m_FileStacks))
  /\ LET f == m_FileStacks[stack + 1]
     IN IF f.m_bIsJPEGEncoded /\ HasInvalidJPEG(f)
          THEN /\ m_FileStacks' = Erase(m_FileStacks, stack)
               /\ stack' = SizeInc(SizeDec(stack))
          ELSE /\ stack' = SizeInc(stack)
               /\ UNCHANGED m_FileStacks
  /\ UNCHANGED <<fs, parsed, fileStacks, scanPc, notScan>>

\* the copy of a stack that is put in the result
WithDesc(f) ==
  [f EXCEPT !.m_strDesc = f.m_strFileType \o " Stack: " \o f.m_strDesc]

\* the loop over the DICOM stacks that are left
ScanCollectDicom ==
  /\ scanPc = "filter"
  /\ ~SizeLess(stack, Len(m_FileStacks))
  /\ fileStacks' = fileStacks \o
                     [k \in 1..Len(m_FileStacks) |-> WithDesc(m_FileStacks[k])]
  /\ scanPc' = "images"
  /\ UNCHANGED <<fs, parsed, m_FileStacks, stack, notScan>>

\* the loop over the image stacks, and the return
ScanCollectImages ==
  /\ scanPc = "images"
  /\ fileStacks' = fileStacks \o
                     [k \in 1..Len(parsed.images) |->
                        WithDesc(parsed.images[k])]
  /\ scanPc' = "done"
  /\ UNCHANGED <<fs, parsed, m_FileStacks, stack, notScan>>

ScanNext ==
  \/ ScanFilterStack
  \/ ScanCollectDicom
  \/ ScanCollectImages

InitScan ==
  /\ fs = {} /\ StackIdle /\ MinMaxIdle /\ RegistryIdle /\ MergeIdle
  /\ ConvIdle /\ ExportIdle /\ ScanInit /\ EvalIdle /\ LookupIdle
  /\ LaterIdle
SpecScan == InitScan /\ [][ScanNext]_vars

(***************************************************************************)
(* C15: ScanDirectory returns, in parser order, every DICOM stack that is  *)
(* not JPEG-encoded or whose every element holds a valid JPEG, followed by *)
(* every image stack; a JPEG-encoded stack with an invalid element is      *)
(* dropped, wherever it is in the list and whatever its neighbours are.    *)
(***************************************************************************)
Loadable(f) == ~f.m_bIsJPEGEncoded \/ \A i \in 1..Len(f.valid) : f.valid[i]

IdsOf(v) == [k \in 1..Len(v) |-> v[k].id]

C15_ScanDropsInvalidStacks ==
  scanPc = "done" =>
    IdsOf(fileStacks) =
      IdsOf(SelectSeq(parsed.dicom, Loadable)) \o IdsOf(parsed.images)

\* the first two stacks are dropped, the third is returned before the
\* image stacks
C15_Witness ==
  /\ scanPc = "done"
  /\ Len(parsed.dicom) = 3
  /\ ~Loadable(parsed.dicom[1])
  /\ ~Loadable(parsed.dicom[2])
  /\ Loadable(parsed.dicom[3])
  /\ parsed.dicom[3].m_bIsJPEGEncoded
  /\ Len(parsed.images) = 2
  /\ Len(fileStacks) = 3

(***************************************************************************)
(* EvaluateExpression.                                                     *)
(***************************************************************************)
\* the (LOD, timestep) pairs of a dataset
Grid(lods, timesteps) == (0..(lods - 1)) \X (0..(timesteps - 1))

NoPair == <<-1, -1>>

\* a dataset with the given structure; its domain size and brick count are
\* those of the reference pyramid, except at the pairs dp and bp
Volume(c, o, t, l, dp, bp, ty) ==
  [components |-> c, overlap |-> o, timesteps |-> t, lods |-> l,
   domain |-> [q \in Grid(l, t) |->
                 (IF q[1] = 0 THEN 4 ELSE 2) + (IF q = dp THEN 1 ELSE 0)],
   bricks |-> [q \in Grid(l, t) |->
                 (IF q[1] = 0 THEN 2 ELSE 1) + (IF q = bp THEN 1 ELSE 0)],
   bits |-> ty.bits, float |-> ty.float, signed |-> ty.signed]

VoxelType(b, fl, sg) == [bits |-> b, float |-> fl, signed |-> sg]

VoxelTypes ==
  { VoxelType(8, FALSE, FALSE), VoxelType(8, FALSE, TRUE),
    VoxelType(16, FALSE, FALSE), VoxelType(16, FALSE, TRUE),
    VoxelType(32, TRUE, TRUE), VoxelType(64, TRUE, TRUE),
    VoxelType(32, FALSE, TRUE), VoxelType(32, FALSE, FALSE),
    VoxelType(64, FALSE, FALSE) }

\* the datasets a call can be given: the reference structure in every
\* voxel type, and byte volumes that differ from it in one respect
Volumes ==
  { Volume(1, 2, 1, 2, NoPair, NoPair, ty) : ty \in VoxelTypes }
    \cup { Volume(3, 2, 1, 2, NoPair, NoPair, VoxelType(8, FALSE, FALSE)),
           Volume(1, 4, 1, 2, NoPair, NoPair, VoxelType(8, FALSE, FALSE)),
           Volume(1, 2, 2, 2, NoPair, NoPair, VoxelType(8, FALSE, FALSE)),
           Volume(1, 2, 1, 1, NoPair, NoPair, VoxelType(8, FALSE, FALSE)),
           Volume(1, 2, 1, 2, <<0, 0>>, NoPair, VoxelType(8, FALSE, FALSE)),
           Volume(1, 2, 1, 2, <<1, 0>>, NoPair, VoxelType(8, FALSE, FALSE)),
           Volume(1, 2, 1, 2, NoPair, <<0, 0>>, VoxelType(8, FALSE, FALSE)),
           Volume(1, 2, 1, 2, NoPair, <<1, 0>>, VoxelType(8, FALSE, FALSE)) }

GetDomainSize(d, lod, ts) == d.domain[<<lod, ts>>]
GetBrickCount(d, lod, ts) == d.bricks[<<lod, ts>>]

\* the arguments GetDomainSize() is called with when none are given
DefaultLOD == 0
DefaultTimestep == 0

MergeableDatasets(a, b) ==
  IF a.components # b.components \/ a.overlap # b.overlap THEN FALSE
  ELSE IF a.timesteps # b.timesteps THEN FALSE
  ELSE IF a.lods # b.lods THEN FALSE
  ELSE \A ts \in 0..(a.timesteps - 1), level \in 0..(a.lods - 1) :
         ~ (\/ GetDomainSize(a, DefaultLOD, DefaultTimestep)
                 # GetDomainSize(b, DefaultLOD, DefaultTimestep)
            \/ GetBrickCount(a, level, ts) # GetBrickCount(b, level, ts))

RECURSIVE MaxOf(_)
MaxOf(S) == IF S = {} THEN 0
            ELSE LET x == CHOOSE x \in S : TRUE
                 IN StdMax(MaxOf(S \ {x}), x)

\* the widest type that is used in a series of datasets
IdentifyType(uvf) ==
  [bit_width |-> MaxOf({ uvf[i].bits : i \in 1..Len(uvf) }),
   is_float  |-> \E i \in 1..Len(uvf) : uvf[i].float,
   is_signed |-> \E i \in 1..Len(uvf) : uvf[i].signed]

\* the instantiation of ReadAndEvalBrick the brick loop selects, or
\* "T_ERROR" where it only reports an error
BrickCase(t) ==
  IF t.is_float /\ t.bit_width = 32 THEN "float"
  ELSE IF t.is_float /\ t.bit_width = 64 THEN "T_ERROR"
  ELSE IF t.is_signed /\ t.bit_width = 8 THEN "int8_t"
  ELSE IF ~t.is_signed /\ t.bit_width = 8 THEN "uint8_t"
  ELSE IF t.is_signed /\ t.bit_width = 16 THEN "int16_t"
  ELSE IF ~t.is_signed /\ t.bit_width = 16 THEN "uint16_t"
  ELSE "T_ERROR"

RECURSIVE SumOver(_, _)
SumOver(f, S) == IF S = {} THEN 0
                 ELSE LET x == CHOOSE x \in S : TRUE
                      IN f[x] + SumOver(f, S \ {x})

\* the position of BricksEnd() in the brick table of a dataset
BricksEnd(d) == SumOver(d.bricks, DOMAIN d.bricks)

\* RemoveExt(out_fn) + ".rdb" and out_fn
RdbFile == "out.rdb"
OutFile == "out.uvf"

EvalEvent(op, arg) == [op |-> op, arg |-> arg]

EvalInit ==
  /\ evalCall \in [parses : BOOLEAN,
                    volumes : UNION { [1..n -> Volumes] : n \in 1..MaxInputs }]
  /\ evalPc = "start"
  /\ evalLog = <<>>
  /\ viters = <<>>
  /\ evalOutcome = "none"

\* the parse with the syntax error thrown before the object that frees the
\* parser exists
EvalParse_ThrowBeforeGuard ==
  /\ evalPc = "start"
  /\ IF ~evalCall.parses
       THEN /\ evalLog' = evalLog \o <<EvalEvent("parser_set_string", <<>>),
                                       EvalEvent("yyparse", <<>>)>>
            /\ evalOutcome' = "SyntaxError"
            /\ evalPc' = "done"
       ELSE /\ evalLog' = evalLog \o <<EvalEvent("parser_set_string", <<>>),
                                       EvalEvent("yyparse", <<>>)>>
            /\ evalPc' = "open"
            /\ UNCHANGED evalOutcome
  /\ UNCHANGED <<fs, evalCall, viters, notEval>>

\* parser_set_string, yyparse, the construction of the cleanup_parser, and
\* the syntax error, which unwinds through ~cleanup_parser
EvalParse ==
  /\ evalPc = "start"
  /\ IF ~evalCall.parses
       THEN /\ evalLog' = evalLog \o <<EvalEvent("parser_set_string", <<>>),
                                       EvalEvent("yyparse", <<>>),
                                       EvalEvent("parser_free", <<>>)>>
            /\ evalOutcome' = "SyntaxError"
            /\ evalPc' = "done"
       ELSE /\ evalLog' = evalLog \o <<EvalEvent("parser_set_string", <<>>),
                                       EvalEvent("yyparse", <<>>)>>
            /\ evalPc' = "open"
            /\ UNCHANGED evalOutcome
  /\ UNCHANGED <<fs, evalCall, viters, notEval>>

\* the datasets are opened and compared with the first one
EvalOpen ==
  /\ evalPc = "open"
  /\ LET uvf == evalCall.volumes
         opened == [i \in 1..Len(uvf) |-> EvalEvent("Create", <<i>>)]
     IN IF \E u \in 1..Len(uvf) : ~MergeableDatasets(uvf[1], uvf[u])
          THEN /\ evalLog' = evalLog \o opened
                                \o <<EvalEvent("parser_free", <<>>)>>
               /\ evalOutcome' = "UnmergeableDatasets"
               /\ evalPc' = "done"
          ELSE /\ evalLog' = evalLog \o opened
               /\ evalPc' = "setup"
               /\ UNCHANGED evalOutcome
  /\ UNCHANGED <<fs, evalCall, viters, notEval>>

\* the tree is read, the iterators are set to the first brick and the
\* file of the output raster data block is created
EvalSetup ==
  /\ evalPc = "setup"
  /\ evalLog' = evalLog \o <<EvalEvent("parser_tree_root", <<>>),
                              EvalEvent("lout->Create", <<>>)>>
  /\ viters' = [i \in 1..Len(evalCall.volumes) |-> 0]
  /\ fs' = fs \cup {RdbFile}
  /\ evalPc' = "bricks"
  /\ UNCHANGED <<evalCall, evalOutcome, notEval>>

\* one iteration of the loop over the bricks of the first dataset
EvalBrick ==
  /\ evalPc = "bricks"
  /\ viters[1] # BricksEnd(evalCall.volumes[1])
  /\ LET case == BrickCase(IdentifyType(evalCall.volumes))
     IN evalLog' = evalLog \o
                     [i \in 1..Len(evalCall.volumes) |->
                        IF case = "T_ERROR"
                          THEN EvalEvent("T_ERROR", <<>>)
                          ELSE EvalEvent("ReadAndEvalBrick", viters)]
  /\ viters' = [i \in 1..Len(viters) |-> viters[i] + 1]
  /\ UNCHANGED <<fs, evalCall, evalPc, evalOutcome, notEval>>

\* the output UVF is built from the raster data block, and the call
\* returns through ~cleanup_parser
EvalFinish ==
  /\ evalPc = "bricks"
  /\ viters[1] = BricksEnd(evalCall.volumes[1])
  /\ evalLog' = evalLog \o <<EvalEvent("CreateUVFFromRDB", <<>>),
                              EvalEvent("parser_free", <<>>)>>
  /\ fs' = fs \cup {OutFile}
  /\ evalOutcome' = "returned"
  /\ evalPc' = "done"
  /\ UNCHANGED <<evalCall, viters, notEval>>

EvalNext ==
  \/ EvalParse
  \/ EvalOpen
  \/ EvalSetup
  \/ EvalBrick
  \/ EvalFinish

InitEval ==
  /\ fs = {} /\ StackIdle /\ MinMaxIdle /\ RegistryIdle /\ MergeIdle
  /\ ConvIdle /\ ExportIdle /\ ScanIdle /\ EvalInit /\ LookupIdle
  /\ LaterIdle
SpecEval == InitEval /\ [][EvalNext]_vars

EvalOps == [i \in 1..Len(evalLog) |-> evalLog[i].op]

(***************************************************************************)
(* C17: two datasets are mergeable iff they have the same component count, *)
(* brick overlap, LOD count, timestep count and, for every (LOD, timestep) *)
(* pair, the same domain size and the same brick count; EvaluateExpression *)
(* fails with the unmergeable error, before any output file is created, if *)
(* an input is not mergeable with input 0.                                 *)
(***************************************************************************)
SameStructure(a, b) ==
  /\ a.components = b.components
  /\ a.overlap = b.overlap
  /\ a.lods = b.lods
  /\ a.timesteps = b.timesteps
  /\ \A q \in Grid(a.lods, a.timesteps) :
        a.domain[q] = b.domain[q] /\ a.bricks[q] = b.bricks[q]

AllSameStructure ==
  \A k \in 1..Len(evalCall.volumes) :
     SameStructure(evalCall.volumes[1], evalCall.volumes[k])

C17_MergeableIffSameStructure ==
  (evalPc = "done" /\ evalCall.parses) =>
    /\ \A k \in 1..Len(evalCall.volumes) :
         MergeableDatasets(evalCall.volumes[1], evalCall.volumes[k])
           = SameStructure(evalCall.volumes[1], evalCall.volumes[k])
    /\ ~AllSameStructure =>
         /\ evalOutcome = "UnmergeableDatasets"
         /\ fs = {}

(***************************************************************************)
(* C18: if the widest type of the inputs is 64-bit float or a 32-bit or    *)
(* 64-bit integer, EvaluateExpression ends in an error and does not build  *)
(* an output UVF from bricks that were never evaluated.                    *)
(***************************************************************************)
WidestUnhandled ==
  LET t == IdentifyType(evalCall.volumes)
  IN \/ t.is_float /\ t.bit_width = 64
     \/ ~t.is_float /\ t.bit_width \in {32, 64}

C18_UnsupportedTypeIsTerminal ==
  (/\ evalPc = "done"
   /\ evalCall.parses
   /\ \A k \in 1..Len(evalCall.volumes) :
        MergeableDatasets(evalCall.volumes[1], evalCall.volumes[k])
   /\ WidestUnhandled)
  => /\ evalOutcome # "returned"
     /\ \A i \in 1..Len(evalLog) : evalLog[i].op # "CreateUVFFromRDB"
     /\ OutFile \notin fs

(***************************************************************************)
(* C19: the parser goes through set-string, parse, read-tree, free in that *)
(* order; parser_free is called exactly once on every exit path, never     *)
(* before the last use of the tree, and a syntax error is raised before    *)
(* an input dataset is opened or an output file is created.                *)
(***************************************************************************)
ParserOps ==
  SelectSeq(EvalOps, LAMBDA o : o \in {"parser_set_string", "yyparse",
                                       "parser_tree_root", "parser_free"})

C19_ParserLifecycle ==
  /\ \A i \in 1..Len(evalLog) :
        evalLog[i].op = "parser_free" => (i = Len(evalLog) /\ evalPc = "done")
  /\ evalPc = "done" =>
        /\ ParserOps \in
             { <<"parser_set_string", "yyparse", "parser_free">>,
               <<"parser_set_string", "yyparse", "parser_tree_root",
                 "parser_free">> }
        /\ (evalOutcome = "SyntaxError") = ~evalCall.parses
        /\ evalOutcome = "SyntaxError" =>
             /\ EvalOps = <<"parser_set_string", "yyparse", "parser_free">>
             /\ fs = {}
        /\ evalOutcome = "returned" =>
             ParserOps = <<"parser_set_string", "yyparse",
                           "parser_tree_root", "parser_free">>

\* two volumes were evaluated brick by brick and the call returned
C19_Witness ==
  /\ evalPc = "done"
  /\ evalOutcome = "returned"
  /\ Len(evalCall.volumes) = 2
  /\ \E i \in 1..Len(evalLog) : evalLog[i].op = "ReadAndEvalBrick"
  /\ evalLog[Len(evalLog)].op = "parser_free"

(***************************************************************************)
(* The brick loop.  The brick tables of mergeable datasets list the same   *)
(* keys in the same order, so the key an iterator refers to is its         *)
(* position; a ReadAndEvalBrick event carries the position of every        *)
(* iterator: it reads the brick at arg[i] of input i, evaluates the        *)
(* expression and writes the result under the key at arg[1].               *)
(***************************************************************************)
\* the call runs to its end: no step of it waits for anything
SpecEvalLive == InitEval /\ [][EvalNext]_vars /\ WF_vars(EvalNext)

AllMergeable ==
  \A k \in 1..Len(evalCall.volumes) :
     MergeableDatasets(evalCall.volumes[1], evalCall.volumes[k])

\* the ReadAndEvalBrick events that wrote the brick at position p
WritesOf(p) ==
  { i \in 1..Len(evalLog) :
      evalLog[i].op = "ReadAndEvalBrick" /\ evalLog[i].arg[1] = p }

CoIteration ==
  /\ \A i \in 1..Len(viters) : viters[i] = viters[1]
  /\ \A i \in 1..Len(evalLog) :
        evalLog[i].op = "ReadAndEvalBrick" =>
          \A k \in 1..Len(evalLog[i].arg) : evalLog[i].arg[k] = evalLog[i].arg[1]
  /\ (evalPc = "done" /\ evalCall.parses /\ AllMergeable) =>
        /\ viters[1] = BricksEnd(evalCall.volumes[1])
        /\ \A p \in 0..(BricksEnd(evalCall.volumes[1]) - 1) : WritesOf(p) # {}

(***************************************************************************)
(* C23: given N >= 1 mergeable inputs, the brick loop ends, when the       *)
(* iterator of input 0 reaches its end; at every step all N iterators have *)
(* been advanced equally often and refer to the same brick key, and every  *)
(* brick key of input 0 is evaluated and written under that key.           *)
(***************************************************************************)
C23_CoIteration ==
  /\ [] CoIteration
  /\ <> (evalPc = "done")

(***************************************************************************)
(* C27: whatever the number of inputs, at each step of the brick loop the  *)
(* brick of each input is read once, the expression is evaluated once and  *)
(* the output brick is written exactly once.                               *)
(***************************************************************************)
C27_OncePerStep ==
  (/\ evalPc = "done"
   /\ evalOutcome = "returned"
   /\ BrickCase(IdentifyType(evalCall.volumes)) # "T_ERROR")
  => \A p \in 0..(BricksEnd(evalCall.volumes[1]) - 1) :
        Cardinality(WritesOf(p)) = 1

(***************************************************************************)
(* GetConverterForExt.  A string is the sequence of its character codes.   *)
(***************************************************************************)
\* tolower on one character
ToLower(ch) == IF ch >= 65 /\ ch <= 90 THEN ch + 32 ELSE ch

\* SysTools::ToLowerCase
ToLowerCase(str) == [k \in 1..Len(str) |-> ToLower(str[k])]

\* the extensions "ab", "AB", "Ab" and "b"
ExtNames == { <<97, 98>>, <<65, 66>>, <<65, 98>>, <<98>> }

\* what a registered converter answers to SupportedExt and CanExportData
ExtEntries ==
  [SupportedExt : { <<e>> : e \in ExtNames }
                    \cup { <<<<98>>, e>> : e \in {<<97, 98>>, <<65, 66>>} },
   CanExportData : BOOLEAN]

LookupInit ==
  /\ extTable \in UNION { [1..n -> ExtEntries] : n \in 0..MaxTable }
  /\ lookupArgs \in [ext : ExtNames, bMustSupportExport : BOOLEAN]
  /\ lookupPc = "start"
  /\ lookupResult = NoConverter

\* the two loops of GetConverterForExt, from converter i and extension l on
RECURSIVE ConverterForExtFrom(_, _, _, _)
ConverterForExtFrom(i, l, ext, bMustSupportExport) ==
  IF i > Len(extTable) THEN NoConverter
  ELSE IF bMustSupportExport /\ ~extTable[i].CanExportData
    THEN ConverterForExtFrom(i + 1, 1, ext, bMustSupportExport)
  ELSE IF l > Len(extTable[i].SupportedExt)
    THEN ConverterForExtFrom(i + 1, 1, ext, bMustSupportExport)
  ELSE IF ext = ToLowerCase(extTable[i].SupportedExt[l]) THEN i
  ELSE ConverterForExtFrom(i, l + 1, ext, bMustSupportExport)

GetConverterForExt(ext, bMustSupportExport) ==
  ConverterForExtFrom(1, 1, ext, bMustSupportExport)

LookupCall ==
  /\ lookupPc = "start"
  /\ lookupResult' = GetConverterForExt(lookupArgs.ext,
                                        lookupArgs.bMustSupportExport)
  /\ lookupPc' = "done"
  /\ UNCHANGED <<fs, extTable, lookupArgs, notLookup>>

LookupNext == LookupCall

InitLookup ==
  /\ fs = {} /\ StackIdle /\ MinMaxIdle /\ RegistryIdle /\ MergeIdle
  /\ ConvIdle /\ ExportIdle /\ ScanIdle /\ EvalIdle /\ LookupInit
  /\ LaterIdle
SpecLookup == InitLookup /\ [][LookupNext]_vars

(***************************************************************************)
(* C20: GetConverterForExt compares extensions without regard to letter    *)
(* case, in the argument and in the registered extensions: it returns the  *)
(* first converter in registration order that lists the extension and,     *)
(* when an exporter is asked for, can export, and none iff there is no     *)
(* such converter.                                                         *)
(***************************************************************************)
ToUpper(ch) == IF ch >= 97 /\ ch <= 122 THEN ch - 32 ELSE ch

EqualIgnoringCase(a, b) ==
  /\ Len(a) = Len(b)
  /\ \A k \in 1..Len(a) : ToUpper(a[k]) = ToUpper(b[k])

\* the converters the lookup may return
Eligible ==
  { i \in 1..Len(extTable) :
      /\ lookupArgs.bMustSupportExport => extTable[i].CanExportData
      /\ \E l \in 1..Len(extTable[i].SupportedExt) :
            EqualIgnoringCase(extTable[i].SupportedExt[l], lookupArgs.ext) }

C20_CaseInsensitiveLookup ==
  lookupPc = "done" =>
    IF Eligible = {} THEN lookupResult = NoConverter
    ELSE /\ lookupResult \in Eligible
         /\ \A i \in Eligible : lookupResult <= i

(***************************************************************************)
(* MaxMin and CreateUVFFromRDB on a raster data block.                     *)
(*                                                                         *)
(* A block has one of the 8 and 16 bit integer types; every level of its   *)
(* pyramid has half the bricks of the level below along each axis, rounded *)
(* up.  Voxel values are small non-negative integers.                      *)
(***************************************************************************)
RECURSIVE HalvedCount(_, _)
HalvedCount(c, lod) ==
  IF lod = 0 THEN c ELSE HalvedCount((c + 1) \div 2, lod - 1)

RasterBlock(n, cx, cy, cz, sg, bw, sd) ==
  [lods      |-> n,
   counts    |-> [l \in 0..(n - 1) |->
                    <<HalvedCount(cx, l), HalvedCount(cy, l),
                      HalvedCount(cz, l)>>],
   is_float  |-> FALSE,
   is_signed |-> sg,
   bit_width |-> bw,
   seed      |-> sd]

RasterBlocks ==
  { RasterBlock(n, cx, cy, cz, sg, bw, sd) :
      n \in 1..MaxLODs, cx \in 1..MaxCount, cy \in 1..MaxCount,
      cz \in 1..MaxCount, sg \in BOOLEAN, bw \in {8, 16}, sd \in 0..1 }

\* rdb->GetBrickCount(lod): counts[0], counts[1], counts[2] of the code are
\* the elements 1, 2, 3 here
RdbBrickCount(r, lod) == r.counts[lod]

BricksInLOD(r, lod) ==
  RdbBrickCount(r, lod)[1] * RdbBrickCount(r, lod)[2] * RdbBrickCount(r, lod)[3]

\* the voxels rdb->GetData returns for a brick
RdbGetData(r, lod, b) ==
  <<(r.seed + 3 * lod + 5 * b) % 11, (2 * r.seed + lod + 3 * b) % 7>>

\* the 1D to 3D conversion with the row taken over counts[1]
NDBrickIndex_RowOverCountY(r, LoD, b) ==
  LET counts == RdbBrickCount(r, LoD)
      zz == b \div (counts[1] * counts[2])
      b1 == b % (counts[1] * counts[2])
      yy == b1 \div counts[2]
      xx == b1 % counts[1]
  IN <<xx, yy, zz>>

\* converts 1D brick indices into RDB's indices
NDBrickIndex(r, LoD, b) ==
  LET counts == RdbBrickCount(r, LoD)
      zz == b \div (counts[1] * counts[2])
      b1 == b % (counts[1] * counts[2])
      yy == b1 \div counts[1]
      xx == b1 % counts[1]
  IN <<xx, yy, zz>>

\* rdb->ValidLOD and rdb->ValidBrickIndex
ValidLOD(r, lod) == lod < r.lods

ValidBrickIndex(r, lod, idx) ==
  /\ ValidLOD(r, lod)
  /\ \A k \in 1..3 : idx[k] < RdbBrickCount(r, lod)[k]

\* the instantiation of get_brick_minmax the type dispatch of MaxMin selects
MaxMinType(r) ==
  IF r.is_signed /\ 8 = r.bit_width THEN "int8_t"
  ELSE IF ~r.is_signed /\ 8 = r.bit_width THEN "uint8_t"
  ELSE IF r.is_signed /\ 16 = r.bit_width THEN "int16_t"
  ELSE "uint16_t"

\* DBL_MAX: a value above every voxel value of the model
DBL_MAX == 2147483647

\* the loop of CreateUVFFromRDB over the vector MaxMin returned; m is
\* max_val after the pass for the first element
RECURSIVE MaxOverBricks(_, _)
MaxOverBricks(v, mx) ==
  IF v = <<>> THEN mx
  ELSE CHOOSE res \in { MaxOverBricks(Tail(v), m) :
                          m \in {StdMax(mx, Head(v).y)} } : TRUE

ReadOf(lod, b, idx) == [lod |-> lod, brick |-> b, b_idx |-> idx]

RdbInit ==
  /\ rdb \in RasterBlocks
  /\ vLOD = 0
  /\ brick = 0
  /\ minmax = <<>>
  /\ reads = <<>>
  /\ max_val = 0
  /\ rdbPc = "start"

\* CreateUVFFromRDB up to the call of MaxMin, and MaxMin up to its loops
CreateUVFStart ==
  /\ rdbPc = "start"
  /\ max_val' = DBL_MAX
  /\ vLOD' = 0
  /\ brick' = 0
  /\ minmax' = <<>>
  /\ rdbPc' = "maxmin"
  /\ UNCHANGED <<fs, rdb, reads, notRdb>>

\* the inner do-while of MaxMin entered with 1D index b: the value of brick
\* when the loop is left, which is the first index after b that is not a
\* valid brick
RECURSIVE BrickLoop(_, _, _)
BrickLoop(r, lod, b) ==
  IF ValidBrickIndex(r, lod, NDBrickIndex(r, lod, b + 1))
    THEN BrickLoop(r, lod, b + 1)
    ELSE b + 1

\* the bricks the passes from..(to - 1) of the loop read, and the vector
\* entries they push
ReadsOfLoop(r, lod, from, to) ==
  [i \in 1..(to - from) |->
     ReadOf(lod, from + i - 1, NDBrickIndex(r, lod, from + i - 1))]

StatsOfLoop(r, lod, from, to) ==
  [i \in 1..(to - from) |->
     get_brick_minmax(MaxMinType(r), RdbGetData(r, lod, from + i - 1))]

\* one pass of the LOD loop in which brick is not set to 0 first
MaxMinLOD_NoReset ==
  /\ rdbPc = "maxmin"
  /\ brick' = BrickLoop(rdb, vLOD, brick)
  /\ reads' = reads \o ReadsOfLoop(rdb, vLOD, brick, brick')
  /\ minmax' = minmax \o StatsOfLoop(rdb, vLOD, brick, brick')
  /\ vLOD' = vLOD + 1
  /\ rdbPc' = IF ValidLOD(rdb, vLOD + 1) THEN "maxmin" ELSE "merge"
  /\ UNCHANGED <<fs, rdb, max_val, notRdb>>

\* one pass of the LOD loop of MaxMin: brick = 0, the brick loop, vLOD[0]++
\* and the test that ends the LOD loop
MaxMinLOD ==
  /\ rdbPc = "maxmin"
  /\ brick' = BrickLoop(rdb, vLOD, 0)
  /\ reads' = reads \o ReadsOfLoop(rdb, vLOD, 0, brick')
  /\ minmax' = minmax \o StatsOfLoop(rdb, vLOD, 0, brick')
  /\ vLOD' = vLOD + 1
  /\ rdbPc' = IF ValidLOD(rdb, vLOD + 1) THEN "maxmin" ELSE "merge"
  /\ UNCHANGED <<fs, rdb, max_val, notRdb>>

\* the loop over the min/max vector; max_val is then handed to
\* hist2d.Compute
CreateUVFMerge ==
  /\ rdbPc = "merge"
  /\ max_val' = MaxOverBricks(minmax, max_val)
  /\ rdbPc' = "done"
  /\ UNCHANGED <<fs, rdb, vLOD, brick, minmax, reads, notRdb>>

RdbNext ==
  \/ CreateUVFStart
  \/ MaxMinLOD
  \/ CreateUVFMerge

InitRdb ==
  /\ fs = {} /\ StackIdle /\ MinMaxIdle /\ RegistryIdle /\ MergeIdle
  /\ ConvIdle /\ ExportIdle /\ ScanIdle /\ EvalIdle /\ LookupIdle
  /\ RdbInit /\ ReBrickIdle /\ SizeIdle /\ LifeIdle
SpecRdb == InitRdb /\ [][RdbNext]_vars

\* the call runs to its end: no step of it waits for anything
SpecRdbLive == SpecRdb /\ WF_vars(RdbNext)

(***************************************************************************)
(* C22: the value CreateUVFFromRDB hands to the 2D histogram as the global *)
(* maximum is the maximum of the per-brick maxima MaxMin returned.         *)
(***************************************************************************)
C22_GlobalMaxOfBricks ==
  rdbPc = "done" =>
    /\ \E i \in 1..Len(minmax) : max_val = minmax[i].y
    /\ \A i \in 1..Len(minmax) : max_val >= minmax[i].y

(***************************************************************************)
(* C25: MaxMin returns exactly one BrickStats per (LOD, brick) pair of the *)
(* block, ordered by LOD and then by 1D brick index; it terminates for     *)
(* every block with at least one LOD and one brick per LOD; every 1D index *)
(* it reads maps through NDBrickIndex to a valid brick index.              *)
(***************************************************************************)
\* the keys of the block: LOD-major, then by 1D index
BlockKeys(r) ==
  Concat([l \in 1..r.lods |->
            [b \in 1..BricksInLOD(r, l - 1) |-> <<l - 1, b - 1>>]])

ReadKeys == [i \in 1..Len(reads) |-> <<reads[i].lod, reads[i].brick>>]

OnePerBrick ==
  /\ Len(minmax) = Len(reads)
  /\ Len(reads) <= Len(BlockKeys(rdb))
  /\ ReadKeys = SubSeq(BlockKeys(rdb), 1, Len(reads))
  /\ \A i \in 1..Len(reads) :
        /\ reads[i].b_idx = NDBrickIndex(rdb, reads[i].lod, reads[i].brick)
        /\ ValidBrickIndex(rdb, reads[i].lod, reads[i].b_idx)
  /\ rdbPc \in {"merge", "done"} => ReadKeys = BlockKeys(rdb)

Linearised(r, lod, idx) ==
  idx[1] + RdbBrickCount(r, lod)[1] * (idx[2] + RdbBrickCount(r, lod)[2] * idx[3])

C26_NDBrickIndexBijective ==
  rdbPc # "idle" =>
    /\ \A i \in 1..Len(reads) :
          /\ ValidBrickIndex(rdb, reads[i].lod, reads[i].b_idx)
          /\ Linearised(rdb, reads[i].lod, reads[i].b_idx) = reads[i].brick
    /\ \A lod \in 0..(rdb.lods - 1) :
          LET n == BricksInLOD(rdb, lod)
              image == { NDBrickIndex(rdb, lod, b) : b \in 0..(n - 1) }
          IN /\ \A b \in 0..(n - 1) :
                   /\ ValidBrickIndex(rdb, lod, NDBrickIndex(rdb, lod, b))
                   /\ Linearised(rdb, lod, NDBrickIndex(rdb, lod, b)) = b
             /\ Cardinality(image) = n
             /\ image = (0..(RdbBrickCount(rdb, lod)[1] - 1))
                           \X (0..(RdbBrickCount(rdb, lod)[2] - 1))
                           \X (0..(RdbBrickCount(rdb, lod)[3] - 1))

\* MaxMin read a brick that is off every axis origin of a block whose brick
\* counts along x and y differ
C26_Witness ==
  /\ rdbPc = "done"
  /\ RdbBrickCount(rdb, 0)[1] # RdbBrickCount(rdb, 0)[2]
  /\ \E i \in 1..Len(reads) :
        /\ reads[i].b_idx[2] >= 1
        /\ reads[i].b_idx[3] >= 1

(***************************************************************************)
(* ReBrickDataset.                                                         *)
(***************************************************************************)
\* strTempDir + ChangeExt(GetFilename(strSourceFilename), "nrrd")
TmpNrrdFile == "source.nrrd"
SourceUVF == "source.uvf"
ReBrickTarget == "rebricked.uvf"

ReBrickCalls ==
  [iMaxBrickSize : 1..MaxParam, iBrickOverlap : 0..MaxParam,
   bQuantizeTo8Bit : BOOLEAN]

\* a ConvertDataset call: source, target, and the brick parameters given
ReBrickEvent(src, tgt, params, ok) ==
  [source |-> src, target |-> tgt, params |-> params, ok |-> ok]

ReBrickInit ==
  /\ rbCall \in ReBrickCalls
  /\ rbPc = "phase1"
  /\ rbLog = <<>>
  /\ rbResult = FALSE

\* phase 1: ConvertDataset(source, tmpFile) with the default parameters; a
\* conversion that fails may have written a part of its target
ReBrickPhase1 ==
  /\ rbPc = "phase1"
  /\ \E ok \in BOOLEAN, wrote \in BOOLEAN :
       /\ rbLog' = Append(rbLog,
                          ReBrickEvent(SourceUVF, TmpNrrdFile, <<>>, ok))
       /\ IF ~ok
            THEN /\ fs' = IF wrote THEN fs \cup {TmpNrrdFile} ELSE fs
                 /\ rbResult' = FALSE
                 /\ rbPc' = "done"
            ELSE /\ fs' = fs \cup {TmpNrrdFile}
                 /\ rbPc' = "phase2"
                 /\ UNCHANGED rbResult
  /\ UNCHANGED <<rbCall, notReBrick>>

\* phase 2: ConvertDataset(tmpFile, target) with the new parameters, and the
\* removal of tmpFile on both outcomes
ReBrickPhase2 ==
  /\ rbPc = "phase2"
  /\ \E ok \in BOOLEAN, wrote \in BOOLEAN :
       /\ rbLog' = Append(rbLog,
                          ReBrickEvent(TmpNrrdFile, ReBrickTarget,
                                       <<rbCall.iMaxBrickSize,
                                         rbCall.iBrickOverlap,
                                         rbCall.bQuantizeTo8Bit>>, ok))
       /\ fs' = (IF ok \/ wrote THEN fs \cup {ReBrickTarget} ELSE fs)
                   \ {TmpNrrdFile}
       /\ rbResult' = ok
  /\ rbPc' = "done"
  /\ UNCHANGED <<rbCall, notReBrick>>

ReBrickNext ==
  \/ ReBrickPhase1
  \/ ReBrickPhase2

InitReBrick ==
  /\ fs = {SourceUVF} /\ StackIdle /\ MinMaxIdle /\ RegistryIdle /\ MergeIdle
  /\ ConvIdle /\ ExportIdle /\ ScanIdle /\ EvalIdle /\ LookupIdle
  /\ RdbIdle /\ ReBrickInit /\ SizeIdle /\ LifeIdle
SpecReBrick == InitReBrick /\ [][ReBrickNext]_vars

(***************************************************************************)
(* C24: ReBrickDataset runs phase 2 only if phase 1 succeeded, returns     *)
(* true iff both phases succeeded, and after it has returned, on any path, *)
(* the NRRD intermediate does not exist.                                   *)
(***************************************************************************)
C24_TwoPhaseNoIntermediate ==
  /\ Len(rbLog) = 2 => rbLog[1].ok
  /\ rbPc = "done" =>
       /\ rbResult = (Len(rbLog) = 2 /\ rbLog[1].ok /\ rbLog[2].ok)
       /\ TmpNrrdFile \notin fs

(***************************************************************************)
(* SetMaxBrickSize and SetBrickOverlap.                                    *)
(***************************************************************************)
SetCall(op, arg, result) ==
  [op |-> op, arg |-> arg, result |-> result,
   before |-> <<m_iMaxBrickSize, m_iBrickOverlap>>]

\* an IOManager whose default brick size exceeds its default overlap
SizeInit ==
  /\ m_iMaxBrickSize \in 0..MaxParam
  /\ m_iBrickOverlap \in 0..MaxParam
  /\ m_iMaxBrickSize > m_iBrickOverlap
  /\ lastSet = NoSet

SetMaxBrickSize ==
  /\ \E iMaxBrickSize \in 0..MaxParam :
       IF iMaxBrickSize > m_iBrickOverlap
         THEN /\ m_iMaxBrickSize' = iMaxBrickSize
              /\ lastSet' = SetCall("SetMaxBrickSize", iMaxBrickSize, TRUE)
         ELSE /\ lastSet' = SetCall("SetMaxBrickSize", iMaxBrickSize, FALSE)
              /\ UNCHANGED m_iMaxBrickSize
  /\ UNCHANGED <<fs, m_iBrickOverlap, notSize>>

\* the setter that also accepts an overlap equal to the brick size
SetBrickOverlap_AllowEqual ==
  /\ \E iBrickOverlap \in 0..MaxParam :
       IF m_iMaxBrickSize >= iBrickOverlap
         THEN /\ m_iBrickOverlap' = iBrickOverlap
              /\ lastSet' = SetCall("SetBrickOverlap", iBrickOverlap, TRUE)
         ELSE /\ lastSet' = SetCall("SetBrickOverlap", iBrickOverlap, FALSE)
              /\ UNCHANGED m_iBrickOverlap
  /\ UNCHANGED <<fs, m_iMaxBrickSize, notSize>>

SetBrickOverlap ==
  /\ \E iBrickOverlap \in 0..MaxParam :
       IF m_iMaxBrickSize > iBrickOverlap
         THEN /\ m_iBrickOverlap' = iBrickOverlap
              /\ lastSet' = SetCall("SetBrickOverlap", iBrickOverlap, TRUE)
         ELSE /\ lastSet' = SetCall("SetBrickOverlap", iBrickOverlap, FALSE)
              /\ UNCHANGED m_iBrickOverlap
  /\ UNCHANGED <<fs, m_iMaxBrickSize, notSize>>

SizeNext ==
  \/ SetMaxBrickSize
  \/ SetBrickOverlap

InitSize ==
  /\ fs = {} /\ StackIdle /\ MinMaxIdle /\ RegistryIdle /\ MergeIdle
  /\ ConvIdle /\ ExportIdle /\ ScanIdle /\ EvalIdle /\ LookupIdle
  /\ RdbIdle /\ ReBrickIdle /\ SizeInit /\ LifeIdle
SpecSize == InitSize /\ [][SizeNext]_vars

(***************************************************************************)
(* C28: after any sequence of SetMaxBrickSize and SetBrickOverlap calls on *)
(* a manager whose default brick size exceeds its default overlap, the     *)
(* stored brick size is greater than the stored overlap; a setter that     *)
(* returns false leaves both values unchanged, and one that returns true   *)
(* changes only its own value, to its argument.                            *)
(***************************************************************************)
C28_SizeExceedsOverlap ==
  /\ m_iMaxBrickSize > m_iBrickOverlap
  /\ lastSet # NoSet =>
       /\ ~lastSet.result =>
            <<m_iMaxBrickSize, m_iBrickOverlap>> = lastSet.before
       /\ (lastSet.result /\ lastSet.op = "SetMaxBrickSize") =>
            /\ m_iMaxBrickSize = lastSet.arg
            /\ m_iBrickOverlap = lastSet.before[2]
       /\ (lastSet.result /\ lastSet.op = "SetBrickOverlap") =>
            /\ m_iBrickOverlap = lastSet.arg
            /\ m_iMaxBrickSize = lastSet.before[1]

\* an overlap equal to the brick size was refused
C28_Witness ==
  /\ lastSet # NoSet
  /\ lastSet.op = "SetBrickOverlap"
  /\ ~lastSet.result
  /\ lastSet.arg = m_iMaxBrickSize
  /\ m_iMaxBrickSize = MaxParam
  /\ m_iBrickOverlap = MaxParam - 1

(***************************************************************************)
(* Ownership of converters: registration and ~IOManager.                   *)
(***************************************************************************)
\* the objects a caller can hand over: all but the built-in ones, which the
\* constructor allocates itself
ExternalObjects ==
  ConverterObjects \ { BuiltinConverters[k] : k \in 1..Len(BuiltinConverters) }

\* the delete counts after delete p; deleting a null pointer does nothing
Delete(counts, p) ==
  IF p = NoConverter THEN counts
  ELSE [counts EXCEPT ![p] = IF @ >= 2 THEN 2 ELSE @ + 1]

\* std::for_each(v.begin(), v.end(), Delete<AbstrConverter>)
RECURSIVE DeleteEach(_, _)
DeleteEach(counts, v) ==
  IF v = <<>> THEN counts
  ELSE CHOOSE res \in { DeleteEach(c, Tail(v)) :
                          c \in {Delete(counts, Head(v))} } : TRUE

\* the manager after its constructor
LifeInit ==
  /\ m_vpConverters = BuiltinConverters
  /\ m_pFinalConverter = NoConverter
  /\ addr = <<>>
  /\ deleted = [c \in ConverterObjects |-> 0]
  /\ passed = { BuiltinConverters[k] : k \in 1..Len(BuiltinConverters) }
  /\ lastFinal = NoConverter
  /\ lifePc = "alive"

\* RegisterExternalConverter with any live object, registered before or not
LifeRegisterExternal ==
  /\ lifePc = "alive"
  /\ Len(m_vpConverters) <= MaxConv
  /\ \E pConverter \in ExternalObjects :
       /\ deleted[pConverter] = 0
       /\ m_vpConverters' = Append(m_vpConverters, pConverter)
       /\ passed' = passed \cup {pConverter}
  /\ UNCHANGED <<fs, m_pFinalConverter, addr, deleted, lastFinal, lifePc,
                 notLife>>

\* RegisterFinalConverter with any live object, registered before or not
LifeRegisterFinal ==
  /\ lifePc = "alive"
  /\ \E pConverter \in ExternalObjects :
       /\ deleted[pConverter] = 0
       /\ deleted' = Delete(deleted, m_pFinalConverter)
       /\ m_pFinalConverter' = pConverter
       /\ lastFinal' = pConverter
       /\ passed' = passed \cup {pConverter}
  /\ UNCHANGED <<fs, m_vpConverters, addr, lifePc, notLife>>

\* ~IOManager
LifeDestroy ==
  /\ lifePc = "alive"
  /\ deleted' = Delete(DeleteEach(deleted, m_vpConverters), m_pFinalConverter)
  /\ m_vpConverters' = <<>>
  /\ lifePc' = "destroyed"
  /\ UNCHANGED <<fs, m_pFinalConverter, addr, passed, lastFinal, notLife>>

LifeNext ==
  \/ LifeRegisterExternal
  \/ LifeRegisterFinal
  \/ LifeDestroy

InitLife ==
  /\ fs = {} /\ StackIdle /\ MinMaxIdle /\ LifeInit /\ MergeIdle
  /\ ConvIdle /\ ExportIdle /\ ScanIdle /\ EvalIdle /\ LookupIdle
  /\ RdbIdle /\ ReBrickIdle /\ SizeIdle
SpecLife == InitLife /\ [][LifeNext]_vars

(***************************************************************************)
(* C30: for any sequence of RegisterExternalConverter and                  *)
(* RegisterFinalConverter calls followed by the destruction of the         *)
(* manager, every registered converter object is deleted exactly once, the *)
(* final converter held is the one registered last, and it is never an     *)
(* object that was already deleted, also when the same instance is passed  *)
(* more than once.                                                         *)
(***************************************************************************)
C30_DeletedExactlyOnce ==
  /\ \A c \in ConverterObjects : deleted[c] <= 1
  /\ lifePc = "alive" =>
       /\ m_pFinalConverter = lastFinal
       /\ m_pFinalConverter # NoConverter => deleted[m_pFinalConverter] = 0
  /\ lifePc = "destroyed" => \A c \in passed : deleted[c] = 1

====
